---------------------------- MODULE Spec2Model ----------------------------
(***************************************************************************)
(* clawlet: message bus + channel manager + LLM client.                    *)
(*                                                                         *)
(* Three state machines share this module:                                 *)
(*   SpecLLM  - llm.Client.Chat (mutex, cooldown pacing, retry loop)       *)
(*   SpecBus  - the bounded Bus streams with producers and consumers       *)
(*   SpecMgr  - channels.Manager (StartAll, StopAll, supervision tasks,    *)
(*              outbound dispatcher) over the telegram and discord         *)
(*              adapters' Start/Stop/Send                                  *)
(*   FairSpecMgr - the Manager while nothing is published, with the        *)
(*              supervision tasks scheduled fairly                         *)
(* Each specification leaves the other machines' variables unchanged.      *)
(* Time is counted in whole seconds.                                       *)
(***************************************************************************)
EXTENDS Integers, Sequences, FiniteSets, TLC

VARIABLES
    \* ---- llm.Client ----
    cfgCooldown,    \* Client.Cooldown (seconds; <= 0 means unset)
    cfgMaxRetries,  \* Client.MaxRetries
    mu,             \* Client.mu: 0 when free, else the caller holding it
    lastReqAt,      \* Client.lastReqAt
    clock,          \* time.Now()
    pc,             \* position of each Chat caller
    loc,            \* each caller's locals: now, wakeAt, try, err
    ctxCancelled,   \* whether the caller's ctx is done
    nChats,         \* Chat calls begun so far
    starts,         \* history: the values written to lastReqAt, in order
    cfgSystemPrompt,\* Client.SystemPrompt, a sequence of characters
    callerMsgs,     \* each caller's own message slice, as it passes it to Chat
    cfgProvider,    \* Client.Provider, normalized
    modelOps,       \* position of the caller of ListModels and of ProbeModel
    probeErr,       \* the error text doChat returns for the probed model id
    probe,          \* the doChat calls and the status of the ProbeModel call
    \* ---- bus.Bus ----
    inbound,        \* the Inbound queue
    outbound,       \* the Outbound queue
    prod,           \* each producer: position, next message, cancellation
    cons,           \* each consumer: position, cancellation
    pubResult,      \* history: message -> "none" | "ok" | "canceled"
    consumed,       \* history: per stream, the messages returned by Consume
    busStream,      \* the stream the producers and consumers of this run use
    \* ---- channels.Manager and adapters ----
    running,            \* Manager.running
    stopOnceDone,       \* Manager.stopOnce has fired
    lastErrorByChannel, \* Manager.lastErrorByChannel ("" = no entry)
    rootDone,           \* the ctx handed to StartAll is cancelled
    ctl,                \* the caller of StartAll/StopAll: position and locals
    gen,                \* number of StartAll calls that spawned tasks
    disp,               \* dispatcher task of each generation
    sup,                \* supervision task of each generation and channel
    adapter,            \* per channel: running, and in sess the Start invocation
                        \* whose cancel (telegram) or session (discord) it holds
    nPublished,         \* outbound messages published by the agent so far
    sendLog,            \* history: Send calls in call order
    mgrLog,             \* history: the messages dropped for an unknown channel,
                        \* those published after the root ctx was cancelled,
                        \* and the channels an error was recorded for since
                        \* the latest StartAll that started the channels began
    sendCall,           \* one Send call on an adapter: the message, the
                        \* adapter's connection, and what the call did
    sendPath,           \* one Send call that got past its checks: its
                        \* provider attempts, waits and result
    handler,            \* one inbound event handler of an adapter: the
                        \* event, and its PublishInbound call
    install,            \* one ClawHubRegistry.Install call and the files of
                        \* the workspace and of the temp directory
    sched               \* which goroutines this run schedules next to the
                        \* caller of StartAll/StopAll: "supervision" (the
                        \* supervision tasks; nothing is published) or
                        \* "dispatch" (the agent and the dispatcher tasks)

llmVars == <<cfgCooldown, cfgMaxRetries, mu, lastReqAt, clock, pc, loc,
             ctxCancelled, nChats, starts, cfgSystemPrompt, callerMsgs>>
busVars == <<inbound, prod, cons, pubResult, consumed, busStream>>
mgrVars == <<running, stopOnceDone, lastErrorByChannel, rootDone, ctl, gen,
             disp, sup, adapter, nPublished, sendLog, mgrLog, sched>>
modelVars == <<cfgProvider, modelOps, probeErr, probe>>
vars == <<llmVars, modelVars, busVars, outbound, mgrVars, sendCall, sendPath,
          handler, install>>

\* what the steps of one machine leave alone
notLLM == <<modelVars, busVars, outbound, mgrVars, sendCall, sendPath, handler,
    install>>
notModels == <<llmVars, busVars, outbound, mgrVars, sendCall, sendPath, handler,
    install>>
notBus == <<llmVars, modelVars, mgrVars, sendCall, sendPath, handler,
    install>>
notMgr == <<llmVars, modelVars, busVars, sendCall, sendPath, handler,
    install>>
notSend == <<llmVars, modelVars, busVars, outbound, mgrVars, sendPath, handler,
    install>>
notSendPath == <<llmVars, modelVars, busVars, outbound, mgrVars, sendCall, handler,
    install>>
\* an inbound handler touches the Inbound queue and nothing else
notHandler == <<llmVars, modelVars, prod, cons, pubResult, consumed, busStream,
                outbound, mgrVars, sendCall, sendPath, install>>
notInstall == <<llmVars, modelVars, busVars, outbound, mgrVars, sendCall,
                sendPath, handler>>

(***************************************************************************)
(* Bounds of the model                                                     *)
(***************************************************************************)
MaxTime == 6
MaxChats == 2

\* the goroutines that call Chat on the one Client
Callers == {1, 2}

(***************************************************************************)
(* llm.Client                                                              *)
(***************************************************************************)
DefaultCooldown == 1
DefaultMaxRetries == 3
ZeroTime == -1000

CooldownValues == {0, 2}
MaxRetriesValues == {0, 1}

\* Error texts are sequences of words; the classification lower-cases them and
\* looks for a run of words.
ErrNone == << >>
ErrTexts == { <<"status", "429">>,
              <<"Rate", "Limit", "reached">>,
              <<"RESOURCE_EXHAUSTED">>,
              <<"request", "timeout">>,
              <<"context", "deadline", "exceeded">>,
              <<"429", "reset", "after", "2s">>,
              <<"RESOURCE_EXHAUSTED", "reset", "after", "7s">>,
              <<"bad", "request">> }
ErrCanceled == <<"context", "canceled">>

ToLowerWord(w) ==
    CASE w = "Rate" -> "rate"
      [] w = "Limit" -> "limit"
      [] w = "RESOURCE_EXHAUSTED" -> "resource_exhausted"
      [] w = "Not" -> "not"
      [] w = "Found" -> "found"
      [] w = "Quota" -> "quota"
      [] w = "EXHAUSTED" -> "exhausted"
      [] OTHER -> w

ToLower_CaseSensitive(s) == s

ToLower(s) == [i \in DOMAIN s |-> ToLowerWord(s[i])]

Contains(s, sub) ==
    \E i \in 0..(Len(s) - Len(sub)) :
        \A j \in 1..Len(sub) : s[i + j] = sub[j]

IsRateLimit(errStr) ==
    \/ Contains(errStr, <<"429">>)
    \/ Contains(errStr, <<"rate", "limit">>)
    \/ Contains(errStr, <<"resource_exhausted">>)

IsTimeout(errStr) ==
    \/ Contains(errStr, <<"timeout">>)
    \/ Contains(errStr, <<"deadline", "exceeded">>)

\* strconv.Atoi of the digits in front of the "s" of a "<digits>s" word;
\* -1 when the word is not of that shape.
SecondsWord(w) ==
    CASE w = "0s" -> 0
      [] w = "2s" -> 2
      [] w = "7s" -> 7
      [] OTHER -> -1

Pow2(n) == IF n <= 0 THEN 1 ELSE 2 ^ n

computeWaitDuration_NoResetRule(errStr, try) == Pow2(try + 1)

computeWaitDuration(errStr, try) ==
    LET hits == { i \in 1..(Len(errStr) - 2) :
                    /\ errStr[i] = "reset"
                    /\ errStr[i + 1] = "after"
                    /\ SecondsWord(errStr[i + 2]) >= 0 }
    IN IF hits # {}
       THEN LET i == CHOOSE k \in hits : \A m \in hits : k <= m
            IN SecondsWord(errStr[i + 2]) + 1
       ELSE Pow2(try + 1)

EffectiveCooldown_NoDefault(cooldown) == cooldown

EffectiveCooldown(cooldown) ==
    IF cooldown <= 0 THEN DefaultCooldown ELSE cooldown

\* the sleep Chat takes at time now (0: none)
CooldownWait(now, last, cooldown) ==
    LET elapsed == now - last
    IN IF elapsed < cooldown THEN cooldown - elapsed ELSE 0

EffectiveMaxTries(maxRetries) ==
    IF maxRetries <= 0 THEN DefaultMaxRetries ELSE maxRetries

MutexFree_Always == TRUE

MutexFree == mu = 0

\* strings.TrimSpace on a sequence of characters, " " the white space
RECURSIVE TrimLeft(_)
TrimLeft(s) == IF s # << >> /\ Head(s) = " " THEN TrimLeft(Tail(s)) ELSE s

RECURSIVE TrimRight(_)
TrimRight(s) ==
    IF s # << >> /\ s[Len(s)] = " " THEN TrimRight(SubSeq(s, 1, Len(s) - 1)) ELSE s

TrimSpace(s) == TrimRight(TrimLeft(s))

\* the values of Client.SystemPrompt, and the slice each caller passes
PromptValues == { << >>, <<" ">>, <<" ", "b", " ">> }
CallerMessages(c) ==
    IF c = 1
    THEN <<[role |-> "user", content |-> <<"h", "i">>]>>
    ELSE <<[role |-> "system", content |-> <<"s">>],
           [role |-> "user", content |-> <<"h", "i">>]>>

WithSystemPrompt_Untrimmed(prompt, messages) ==
    IF prompt # << >>
    THEN <<[role |-> "system", content |-> prompt]>> \o messages
    ELSE messages

\* the messages Chat hands to doChat: a fresh slice when the prompt is added
WithSystemPrompt(prompt, messages) ==
    IF TrimSpace(prompt) # << >>
    THEN <<[role |-> "system", content |-> prompt]>> \o messages
    ELSE messages

\* res: the attempt whose result the variable res of Chat holds (0: nil)
InitLoc == [wakeAt |-> 0, try |-> 0, attempts |-> 0, err |-> ErrNone, res |-> 0,
            timerFirst |-> FALSE, messages |-> << >>, sent |-> << >>]

InitLLM ==
    /\ cfgCooldown \in CooldownValues
    /\ cfgMaxRetries \in MaxRetriesValues
    /\ mu = 0
    /\ lastReqAt = ZeroTime
    /\ clock = 0
    /\ pc = [c \in Callers |-> "idle"]
    /\ loc = [c \in Callers |-> InitLoc]
    /\ ctxCancelled = [c \in Callers |-> FALSE]
    /\ nChats = 0
    /\ starts = << >>
    /\ cfgSystemPrompt \in PromptValues
    /\ callerMsgs = [c \in Callers |-> CallerMessages(c)]

\* a caller enters Chat with a live ctx and blocks on c.mu.Lock()
ChatCall(c) ==
    /\ pc[c] = "idle"
    /\ nChats < MaxChats
    /\ nChats' = nChats + 1
    /\ pc' = [pc EXCEPT ![c] = "lock"]
    /\ loc' = [loc EXCEPT ![c] = InitLoc]
    /\ ctxCancelled' = [ctxCancelled EXCEPT ![c] = FALSE]
    /\ UNCHANGED <<cfgSystemPrompt, callerMsgs, cfgCooldown, cfgMaxRetries, mu, lastReqAt, clock, starts>>
    /\ UNCHANGED notLLM

ChatLock(c) ==
    /\ pc[c] = "lock"
    /\ MutexFree
    /\ mu' = c
    /\ pc' = [pc EXCEPT ![c] = "cool"]
    /\ UNCHANGED <<cfgSystemPrompt, callerMsgs, cfgCooldown, cfgMaxRetries, lastReqAt, clock, loc,
                   ctxCancelled, nChats, starts>>
    /\ UNCHANGED notLLM

\* now := time.Now(); elapsed := now.Sub(c.lastReqAt); time.Sleep begins
ChatCooldown(c) ==
    /\ pc[c] = "cool"
    /\ LET wait == CooldownWait(clock, lastReqAt, EffectiveCooldown(cfgCooldown))
       IN /\ loc' = [loc EXCEPT ![c].wakeAt = clock + wait]
          /\ pc' = [pc EXCEPT ![c] = IF wait > 0 THEN "sleep" ELSE "stamp"]
    /\ UNCHANGED <<cfgSystemPrompt, callerMsgs, cfgCooldown, cfgMaxRetries, mu, lastReqAt, clock,
                   ctxCancelled, nChats, starts>>
    /\ UNCHANGED notLLM

\* time.Sleep(wait) returns once at least wait has passed
ChatSleepDone(c) ==
    /\ pc[c] = "sleep"
    /\ clock >= loc[c].wakeAt
    /\ pc' = [pc EXCEPT ![c] = "stamp"]
    /\ UNCHANGED <<cfgSystemPrompt, callerMsgs, cfgCooldown, cfgMaxRetries, mu, lastReqAt, clock, loc,
                   ctxCancelled, nChats, starts>>
    /\ UNCHANGED notLLM

\* c.lastReqAt = time.Now(); the retry loop starts at try 0
ChatStamp(c) ==
    /\ pc[c] = "stamp"
    /\ lastReqAt' = clock
    /\ starts' = Append(starts, clock)
    /\ loc' = [loc EXCEPT ![c].try = 0, ![c].wakeAt = 0,
                          ![c].messages = WithSystemPrompt(cfgSystemPrompt, callerMsgs[c])]
    /\ pc' = [pc EXCEPT ![c] = "attempt"]
    /\ UNCHANGED <<cfgSystemPrompt, callerMsgs, cfgCooldown, cfgMaxRetries, mu, clock, ctxCancelled, nChats>>
    /\ UNCHANGED notLLM

\* the attempt with the request start stamped inside the retry loop
DoChatBegin_StampEachAttempt(c) ==
    /\ pc[c] = "attempt"
    /\ pc' = [pc EXCEPT ![c] = "inflight"]
    /\ loc' = [loc EXCEPT ![c].attempts = @ + 1, ![c].sent = loc[c].messages]
    /\ lastReqAt' = clock
    /\ starts' = IF loc[c].attempts > 0 THEN Append(starts, clock) ELSE starts
    /\ UNCHANGED <<cfgSystemPrompt, callerMsgs, cfgCooldown, cfgMaxRetries, mu, clock,
                   ctxCancelled, nChats>>
    /\ UNCHANGED notLLM

\* res, err = c.doChat(...): the provider request is issued
DoChatBegin(c) ==
    /\ pc[c] = "attempt"
    /\ pc' = [pc EXCEPT ![c] = "inflight"]
    /\ loc' = [loc EXCEPT ![c].attempts = @ + 1, ![c].sent = loc[c].messages]
    /\ UNCHANGED <<cfgSystemPrompt, callerMsgs, cfgCooldown, cfgMaxRetries, mu, lastReqAt, clock,
                   ctxCancelled, nChats, starts>>
    /\ UNCHANGED notLLM

\* the loop is left: Chat is about to return (res, err)
ChatFinish(c, res, err) ==
    /\ pc' = [pc EXCEPT ![c] = "ret"]
    /\ loc' = [loc EXCEPT ![c].res = res, ![c].err = err, ![c].wakeAt = 0]

\* doChat returns; the loop body classifies the error
DoChatReturn(c) ==
    /\ pc[c] = "inflight"
    /\ \E err \in {ErrNone} \cup ErrTexts \cup
                  (IF ctxCancelled[c] THEN {ErrCanceled} ELSE {}) :
         LET errStr == ToLower(err)
             maxTries == EffectiveMaxTries(cfgMaxRetries)
         IN IF /\ err # ErrNone
               /\ IsRateLimit(errStr) \/ IsTimeout(errStr)
               /\ loc[c].try < maxTries
            THEN /\ loc' = [loc EXCEPT ![c].wakeAt =
                                    clock + computeWaitDuration(errStr, loc[c].try),
                                  ![c].res = loc[c].attempts,
                                  ![c].err = err]
                 /\ pc' = [pc EXCEPT ![c] = "wait"]
            ELSE ChatFinish(c, loc[c].attempts, err)
    /\ UNCHANGED <<cfgSystemPrompt, callerMsgs, cfgCooldown, cfgMaxRetries, mu, lastReqAt, clock,
                   ctxCancelled, nChats, starts>>
    /\ UNCHANGED notLLM

\* the select of the wait taking the timer case whatever ctx.Done() says
RetryTimer_IgnoreCancel(c) ==
    /\ pc[c] = "wait"
    /\ clock >= loc[c].wakeAt
    /\ loc' = [loc EXCEPT ![c].try = @ + 1, ![c].wakeAt = 0, ![c].timerFirst = FALSE]
    /\ pc' = [pc EXCEPT ![c] = "attempt"]
    /\ UNCHANGED <<cfgSystemPrompt, callerMsgs, cfgCooldown, cfgMaxRetries, mu, lastReqAt, clock,
                   ctxCancelled, nChats, starts>>
    /\ UNCHANGED notLLM

\* case <-time.After(wait): continue.  The blocked select takes the case that
\* becomes ready first: the timer case only if ctx was not done before the
\* timer fired
RetryTimer(c) ==
    /\ pc[c] = "wait"
    /\ clock >= loc[c].wakeAt
    /\ ctxCancelled[c] => loc[c].timerFirst
    /\ loc' = [loc EXCEPT ![c].try = @ + 1, ![c].wakeAt = 0, ![c].timerFirst = FALSE]
    /\ pc' = [pc EXCEPT ![c] = "attempt"]
    /\ UNCHANGED <<cfgSystemPrompt, callerMsgs, cfgCooldown, cfgMaxRetries, mu, lastReqAt, clock,
                   ctxCancelled, nChats, starts>>
    /\ UNCHANGED notLLM

\* case <-ctx.Done(): return nil, ctx.Err()
RetryCancelled(c) ==
    /\ pc[c] = "wait"
    /\ ctxCancelled[c]
    /\ ChatFinish(c, 0, ErrCanceled)
    /\ UNCHANGED <<cfgSystemPrompt, callerMsgs, cfgCooldown, cfgMaxRetries, mu, lastReqAt, clock,
                   ctxCancelled, nChats, starts>>
    /\ UNCHANGED notLLM

\* Chat returning to its caller with the mutex still locked
ChatReturn_NoUnlock(c) ==
    /\ pc[c] = "ret"
    /\ pc' = [pc EXCEPT ![c] = "idle"]
    /\ loc' = [loc EXCEPT ![c] = InitLoc]
    /\ ctxCancelled' = [ctxCancelled EXCEPT ![c] = FALSE]
    /\ UNCHANGED <<cfgSystemPrompt, callerMsgs, cfgCooldown, cfgMaxRetries, mu, lastReqAt, clock, nChats, starts>>
    /\ UNCHANGED notLLM

\* Chat returns to its caller: the deferred c.mu.Unlock() runs
ChatReturn(c) ==
    /\ pc[c] = "ret"
    /\ mu' = IF mu = c THEN 0 ELSE mu
    /\ pc' = [pc EXCEPT ![c] = "idle"]
    /\ loc' = [loc EXCEPT ![c] = InitLoc]
    /\ ctxCancelled' = [ctxCancelled EXCEPT ![c] = FALSE]
    /\ UNCHANGED <<cfgSystemPrompt, callerMsgs, cfgCooldown, cfgMaxRetries, lastReqAt, clock, nChats, starts>>
    /\ UNCHANGED notLLM

\* the caller's ctx is cancelled while its Chat call is under way; timerFirst
\* notes a cancellation that comes when the timer of the wait has fired already
CtxCancel(c) ==
    /\ pc[c] # "idle"
    /\ ~ctxCancelled[c]
    /\ ctxCancelled' = [ctxCancelled EXCEPT ![c] = TRUE]
    /\ loc' = IF pc[c] = "wait" /\ clock >= loc[c].wakeAt
              THEN [loc EXCEPT ![c].timerFirst = TRUE]
              ELSE loc
    /\ UNCHANGED <<cfgSystemPrompt, callerMsgs, cfgCooldown, cfgMaxRetries, mu, lastReqAt, clock, pc,
                   nChats, starts>>
    /\ UNCHANGED notLLM

\* time passes while some Chat call is under way
Tick ==
    /\ clock < MaxTime
    /\ \E c \in Callers : pc[c] # "idle"
    /\ clock' = clock + 1
    /\ UNCHANGED <<cfgSystemPrompt, callerMsgs, cfgCooldown, cfgMaxRetries, mu, lastReqAt, pc, loc,
                   ctxCancelled, nChats, starts>>
    /\ UNCHANGED notLLM


NextLLM ==
    \/ \E c \in Callers : ChatCall(c)
    \/ \E c \in Callers : ChatLock(c)
    \/ \E c \in Callers : ChatCooldown(c)
    \/ \E c \in Callers : ChatSleepDone(c)
    \/ \E c \in Callers : ChatStamp(c)
    \/ \E c \in Callers : DoChatBegin(c)
    \/ \E c \in Callers : DoChatReturn(c)
    \/ \E c \in Callers : RetryTimer(c)
    \/ \E c \in Callers : RetryCancelled(c)
    \/ \E c \in Callers : ChatReturn(c)
    \/ \E c \in Callers : CtxCancel(c)
    \/ Tick

(***************************************************************************)
(* Client.ListModels and Client.ProbeModel.  Neither touches Client.mu or  *)
(* Client.lastReqAt: ListModels goes to the provider through               *)
(* listOpenAICompatible, ProbeModel copies the Client and calls doChat on  *)
(* the copy.                                                               *)
(***************************************************************************)
ModelOps == {"ListModels", "ProbeModel"}

\* providers doChat knows; ListModels asks the first over HTTP, answers the
\* second from a fixed list and refuses the third
ProviderValues == {"openai", "antigravity", "anthropic"}

\* what doChat can return for the "hi" request of a probe: no error, or an
\* error with one of these texts
ProbeErrTexts == { <<"llm", "http", "404">>,
                   <<"model", "Not", "Found">>,
                   <<"llm", "http", "429">>,
                   <<"Quota", "exceeded">>,
                   <<"RESOURCE_", "EXHAUSTED">>,
                   <<"404", "quota">>,
                   <<"bad", "request">> }

\* info.Status as ProbeModel sets it from the err of doChat
ProbeStatus_RateLimitFirst(err) ==
    IF err = ErrNone THEN "ok"
    ELSE LET errStr == ToLower(err)
         IN IF \/ Contains(errStr, <<"429">>)
               \/ Contains(errStr, <<"quota">>)
               \/ Contains(errStr, <<"exhausted">>)
            THEN "ok"
            ELSE IF Contains(errStr, <<"404">>) \/ Contains(errStr, <<"not", "found">>)
            THEN "not_found"
            ELSE "error"

ProbeStatus(err) ==
    IF err = ErrNone THEN "ok"
    ELSE LET errStr == ToLower(err)
         IN IF Contains(errStr, <<"404">>) \/ Contains(errStr, <<"not", "found">>)
            THEN "not_found"
            ELSE IF \/ Contains(errStr, <<"429">>)
                    \/ Contains(errStr, <<"quota">>)
                    \/ Contains(errStr, <<"exhausted">>)
            THEN "ok"
            ELSE "error"

NoProbe == [calls |-> 0, status |-> ""]

InitModels ==
    /\ cfgProvider \in ProviderValues
    /\ modelOps = [op \in ModelOps |-> "idle"]
    /\ probeErr \in {ErrNone} \cup ProbeErrTexts
    /\ probe = NoProbe

\* ListModels up to its provider request (hc.Do), or to its return when the
\* provider needs none
ListModels ==
    /\ modelOps["ListModels"] # "inflight"
    /\ modelOps' = [modelOps EXCEPT !["ListModels"] =
                        IF cfgProvider = "openai" THEN "inflight" ELSE "returned"]
    /\ UNCHANGED <<cfgProvider, probeErr, probe>>
    /\ UNCHANGED notModels

ListModelsReturn ==
    /\ modelOps["ListModels"] = "inflight"
    /\ modelOps' = [modelOps EXCEPT !["ListModels"] = "returned"]
    /\ UNCHANGED <<cfgProvider, probeErr, probe>>
    /\ UNCHANGED notModels

\* ProbeModel up to the request of tmp.doChat, its only one
ProbeModel ==
    /\ modelOps["ProbeModel"] # "inflight"
    /\ modelOps' = [modelOps EXCEPT !["ProbeModel"] = "inflight"]
    /\ probe' = [calls |-> 1, status |-> ""]
    /\ UNCHANGED <<cfgProvider, probeErr>>
    /\ UNCHANGED notModels

\* doChat returns; ProbeModel sets info.Status and returns info and the err
ProbeModelReturn ==
    /\ modelOps["ProbeModel"] = "inflight"
    /\ modelOps' = [modelOps EXCEPT !["ProbeModel"] = "returned"]
    /\ probe' = [probe EXCEPT !.status = ProbeStatus(probeErr)]
    /\ UNCHANGED <<cfgProvider, probeErr>>
    /\ UNCHANGED notModels

NextModels ==
    \/ \E c \in Callers : ChatCall(c)
    \/ \E c \in Callers : ChatLock(c)
    \/ \E c \in Callers : ChatCooldown(c)
    \/ \E c \in Callers : ChatSleepDone(c)
    \/ \E c \in Callers : ChatStamp(c)
    \/ \E c \in Callers : DoChatBegin(c)
    \/ \E c \in Callers : DoChatReturn(c)
    \/ \E c \in Callers : RetryTimer(c)
    \/ \E c \in Callers : RetryCancelled(c)
    \/ \E c \in Callers : ChatReturn(c)
    \/ \E c \in Callers : CtxCancel(c)
    \/ Tick
    \/ ListModels
    \/ ListModelsReturn
    \/ ProbeModel
    \/ ProbeModelReturn

\* the callers of ListModels and ProbeModel alone
NextProbe ==
    \/ ListModels
    \/ ListModelsReturn
    \/ ProbeModel
    \/ ProbeModelReturn

(***************************************************************************)
(* bus.Bus: two bounded FIFO queues.  A message of the Bus machine is the  *)
(* pair <<producer, k>>: the k-th message that producer publishes.         *)
(***************************************************************************)
BusCap == 2
MaxPerProducer == 2

\* who publishes to and who consumes from each stream: the adapters publish
\* Inbound and the agent consumes it; the agent publishes Outbound and the
\* Manager's dispatcher tasks consume it
Producers == {"telegram", "discord", "agent"}
Consumers == {"agent", "dispatcher1", "dispatcher2"}
ProducerStream(p) == IF p = "agent" THEN "outbound" ELSE "inbound"
ConsumerStream(c) == IF c = "agent" THEN "inbound" ELSE "outbound"
Streams == {"inbound", "outbound"}
BusMsgs == Producers \X (1..MaxPerProducer)

Queue(s) == IF s = "inbound" THEN inbound ELSE outbound

SetQueue(s, q) ==
    IF s = "inbound"
    THEN inbound' = q /\ UNCHANGED outbound
    ELSE outbound' = q /\ UNCHANGED inbound

BusHasSpace_Always(q) == TRUE

BusHasSpace(q) == Len(q) < BusCap

BusEnqueue_Front(q, m) == <<m>> \o q

BusEnqueue(q, m) == Append(q, m)

BusHasMessage(q) == Len(q) > 0

BusRest_Keep(q) == q

BusRest(q) == Tail(q)

InitBus ==
    /\ inbound = << >>
    /\ outbound = << >>
    /\ prod = [p \in Producers |-> [pc |-> "idle", k |-> 1, cancelled |-> FALSE]]
    /\ cons = [c \in Consumers |-> [pc |-> "idle", cancelled |-> FALSE]]
    /\ pubResult = [m \in BusMsgs |-> "none"]
    /\ consumed = [s \in Streams |-> << >>]
    /\ busStream \in Streams

\* a producer calls PublishInbound / PublishOutbound with a live ctx
PublishCall(p) ==
    /\ prod[p].pc = "idle"
    /\ ProducerStream(p) = busStream
    /\ prod[p].k <= MaxPerProducer
    /\ prod' = [prod EXCEPT ![p].pc = "publishing"]
    /\ UNCHANGED <<inbound, outbound, cons, pubResult, consumed, busStream>>
    /\ UNCHANGED notBus

\* the message is enqueued and Publish returns nil
PublishEnqueue(p) ==
    LET s == ProducerStream(p)
        m == <<p, prod[p].k>>
    IN /\ prod[p].pc = "publishing"
       /\ BusHasSpace(Queue(s))
       /\ SetQueue(s, BusEnqueue(Queue(s), m))
       /\ pubResult' = [pubResult EXCEPT ![m] = "ok"]
       /\ prod' = [prod EXCEPT ![p] = [pc |-> "idle", k |-> @.k + 1, cancelled |-> FALSE]]
       /\ UNCHANGED <<cons, consumed, busStream>>
       /\ UNCHANGED notBus

\* the caller's cancellation fires: Publish returns Canceled
PublishCanceled(p) ==
    LET m == <<p, prod[p].k>>
    IN /\ prod[p].pc = "publishing"
       /\ prod[p].cancelled
       /\ pubResult' = [pubResult EXCEPT ![m] = "canceled"]
       /\ prod' = [prod EXCEPT ![p] = [pc |-> "idle", k |-> @.k + 1, cancelled |-> FALSE]]
       /\ UNCHANGED <<inbound, outbound, cons, consumed, busStream>>
       /\ UNCHANGED notBus

ProducerCtxCancel(p) ==
    /\ prod[p].pc = "publishing"
    /\ ~prod[p].cancelled
    /\ prod' = [prod EXCEPT ![p].cancelled = TRUE]
    /\ UNCHANGED <<inbound, outbound, cons, pubResult, consumed, busStream>>
    /\ UNCHANGED notBus

\* a consumer calls ConsumeInbound / ConsumeOutbound with a live ctx
ConsumeCall(c) ==
    /\ cons[c].pc = "idle"
    /\ ConsumerStream(c) = busStream
    /\ cons' = [cons EXCEPT ![c].pc = "consuming"]
    /\ UNCHANGED <<inbound, outbound, prod, pubResult, consumed, busStream>>
    /\ UNCHANGED notBus

\* one message is dequeued and returned
ConsumeDequeue(c) ==
    LET s == ConsumerStream(c)
    IN /\ cons[c].pc = "consuming"
       /\ BusHasMessage(Queue(s))
       /\ consumed' = [consumed EXCEPT ![s] = Append(@, Head(Queue(s)))]
       /\ SetQueue(s, BusRest(Queue(s)))
       /\ cons' = [cons EXCEPT ![c] = [pc |-> "idle", cancelled |-> FALSE]]
       /\ UNCHANGED <<prod, pubResult, busStream>>
       /\ UNCHANGED notBus

\* the caller's cancellation fires: Consume returns Canceled
ConsumeCanceled(c) ==
    /\ cons[c].pc = "consuming"
    /\ cons[c].cancelled
    /\ cons' = [cons EXCEPT ![c] = [pc |-> "idle", cancelled |-> FALSE]]
    /\ UNCHANGED <<inbound, outbound, prod, pubResult, consumed, busStream>>
    /\ UNCHANGED notBus

ConsumerCtxCancel(c) ==
    /\ cons[c].pc = "consuming"
    /\ ~cons[c].cancelled
    /\ cons' = [cons EXCEPT ![c].cancelled = TRUE]
    /\ UNCHANGED <<inbound, outbound, prod, pubResult, consumed, busStream>>
    /\ UNCHANGED notBus

NextBus ==
    \/ \E p \in Producers : PublishCall(p)
    \/ \E p \in Producers : PublishEnqueue(p)
    \/ \E p \in Producers : PublishCanceled(p)
    \/ \E p \in Producers : ProducerCtxCancel(p)
    \/ \E c \in Consumers : ConsumeCall(c)
    \/ \E c \in Consumers : ConsumeDequeue(c)
    \/ \E c \in Consumers : ConsumeCanceled(c)
    \/ \E c \in Consumers : ConsumerCtxCancel(c)

(***************************************************************************)
(* channels.Manager with the telegram and discord adapters registered.     *)
(* An error value is [kind, text]: kind "nil" is the nil error, kind       *)
(* "canceled" an error for which errors.Is(err, context.Canceled) holds.   *)
(*                                                                         *)
(* The supervision tasks and the dispatcher tasks share only the root ctx  *)
(* (both read it) and lastErrorByChannel (both write it, neither reads     *)
(* it), so a run schedules one of the two families: sched, fixed by Init.  *)
(* In a "supervision" run no outbound message is published; in a           *)
(* "dispatch" run the spawned supervision tasks have not yet been          *)
(* scheduled.                                                              *)
(***************************************************************************)
MaxGen == 2
MaxMsgs == 2

Channels == {"telegram", "discord"}
UnknownChannel == "nope"
Names == Channels \cup {UnknownChannel}
Gens == 1..MaxGen

NilErr == [kind |-> "nil", text |-> ""]
Canceled == [kind |-> "canceled", text |-> "context canceled"]
Err(t) == [kind |-> "err", text |-> t]

NoMsg == [id |-> 0, channel |-> ""]

IsCanceled_Never(err) == FALSE

\* errors.Is(err, context.Canceled)
IsCanceled(err) == err.kind = "canceled"

setChannelError_Keep(m, name, msg) == m

setChannelError(m, name, msg) ==
    IF name = "" THEN m
    ELSE IF msg = "" THEN [m EXCEPT ![name] = ""]
    ELSE [m EXCEPT ![name] = msg]

\* the history after setChannelError stored an error text for channel ch
NoteError(log, ch) == [log EXCEPT !.fresh = @ \cup {ch}]

\* Manager.Status(): "" stands for an absent lastError key
Status ==
    [name \in Channels |->
        [running |-> adapter[name].running,
         lastError |-> lastErrorByChannel[name]]]

InitSup == [pc |-> "none", err |-> NilErr, runDone |-> FALSE]
InitDisp == [pc |-> "none", msg |-> NoMsg, err |-> NilErr]
Ret(op, spawned) == [op |-> op, val |-> "nil", spawned |-> spawned]

InitMgr ==
    /\ running = FALSE
    /\ stopOnceDone = FALSE
    /\ lastErrorByChannel = [n \in Names |-> ""]
    /\ rootDone = FALSE
    /\ ctl = [pc |-> "idle", todo |-> {}, g |-> 0, ret |-> Ret("none", FALSE)]
    /\ gen = 0
    /\ disp = [g \in Gens |-> InitDisp]
    /\ sup = [g \in Gens |-> [ch \in Channels |-> InitSup]]
    /\ adapter = [ch \in Channels |-> [running |-> FALSE, sess |-> 0]]
    /\ nPublished = 0
    /\ sendLog = << >>
    /\ mgrLog = [dropped |-> {}, late |-> {}, fresh |-> {}]
    /\ sched \in {"supervision", "dispatch"}

\* StartAll without its "if m.running" early return
StartAllEnter_NoCheck ==
    /\ ctl.pc = "idle"
    /\ gen < MaxGen
    /\ running' = TRUE
    /\ gen' = gen + 1
    /\ ctl' = [ctl EXCEPT !.pc = "sa_spawn", !.todo = Channels, !.g = gen + 1]
    /\ mgrLog' = [mgrLog EXCEPT !.fresh = {}]
    /\ UNCHANGED <<stopOnceDone, lastErrorByChannel, rootDone, disp, sup, adapter,
                   nPublished, sendLog, sched, outbound>>
    /\ UNCHANGED notMgr

\* StartAll up to m.mu.Unlock(): returns nil at once when already running
StartAllEnter ==
    /\ ctl.pc = "idle"
    /\ IF running
       THEN /\ ctl' = [ctl EXCEPT !.ret = Ret("StartAll", FALSE)]
            /\ UNCHANGED <<running, gen, mgrLog>>
       ELSE /\ gen < MaxGen
            /\ running' = TRUE
            /\ gen' = gen + 1
            /\ ctl' = [ctl EXCEPT !.pc = "sa_spawn", !.todo = Channels, !.g = gen + 1]
            /\ mgrLog' = [mgrLog EXCEPT !.fresh = {}]
    /\ UNCHANGED <<stopOnceDone, lastErrorByChannel, rootDone, disp, sup, adapter,
                   nPublished, sendLog, sched, outbound>>
    /\ UNCHANGED notMgr

\* go m.dispatchOutbound(ctx)
StartAllSpawnDispatcher ==
    /\ ctl.pc = "sa_spawn"
    /\ disp' = [disp EXCEPT ![ctl.g].pc = "consume"]
    /\ ctl' = [ctl EXCEPT !.pc = "sa_loop"]
    /\ UNCHANGED <<running, stopOnceDone, lastErrorByChannel, rootDone, gen, sup,
                   adapter, nPublished, sendLog, mgrLog, sched, outbound>>
    /\ UNCHANGED notMgr

\* the loop of StartAll without its m.setChannelError(ch.Name(), "")
StartAllLoop_NoClear(ch) ==
    /\ ctl.pc = "sa_loop"
    /\ ch \in ctl.todo
    /\ sup' = [sup EXCEPT ![ctl.g][ch].pc = "start"]
    /\ ctl' = IF ctl.todo = {ch}
              THEN [ctl EXCEPT !.pc = "idle", !.todo = {}, !.ret = Ret("StartAll", TRUE)]
              ELSE [ctl EXCEPT !.todo = @ \ {ch}]
    /\ UNCHANGED <<running, stopOnceDone, rootDone, gen, disp, adapter,
                   lastErrorByChannel, nPublished, sendLog, mgrLog, sched, outbound>>
    /\ UNCHANGED notMgr

\* one iteration of "for _, ch := range chs": clear the error, spawn the
\* supervision task; after the last one StartAll returns nil
StartAllLoop(ch) ==
    /\ ctl.pc = "sa_loop"
    /\ ch \in ctl.todo
    /\ lastErrorByChannel' = setChannelError(lastErrorByChannel, ch, "")
    /\ sup' = [sup EXCEPT ![ctl.g][ch].pc = "start"]
    /\ ctl' = IF ctl.todo = {ch}
              THEN [ctl EXCEPT !.pc = "idle", !.todo = {}, !.ret = Ret("StartAll", TRUE)]
              ELSE [ctl EXCEPT !.todo = @ \ {ch}]
    /\ UNCHANGED <<running, stopOnceDone, rootDone, gen, disp, adapter,
                   nPublished, sendLog, mgrLog, sched, outbound>>
    /\ UNCHANGED notMgr

\* StopAll: the stopOnce body up to m.mu.Unlock(), or nothing once it has run
StopAllEnter ==
    /\ ctl.pc = "idle"
    /\ IF stopOnceDone
       THEN /\ ctl' = [ctl EXCEPT !.ret = Ret("StopAll", FALSE)]
            /\ UNCHANGED <<running, stopOnceDone>>
       ELSE /\ stopOnceDone' = TRUE
            /\ running' = FALSE
            /\ ctl' = [ctl EXCEPT !.pc = "so_loop", !.todo = Channels]
    /\ UNCHANGED <<lastErrorByChannel, rootDone, gen, disp, sup, adapter,
                   nPublished, sendLog, mgrLog, sched, outbound>>
    /\ UNCHANGED notMgr

\* telegram.Channel.Stop: drop bot and cancel, call cancel()
TelegramStop(a, su) ==
    LET inv == a["telegram"].sess
    IN [adapter |-> [a EXCEPT !["telegram"].sess = 0],
        sup |-> IF inv # 0 /\ su[inv]["telegram"].pc = "run"
                THEN [su EXCEPT ![inv]["telegram"].runDone = TRUE] ELSE su,
        errs |-> {NilErr}]

\* discord.Channel.Stop: drop the session and Close() it.  Nothing Start
\* waits for changes; runDone only notes the Start calls under way at the time
DiscordStop(a, su) ==
    [adapter |-> [a EXCEPT !["discord"].sess = 0],
     sup |-> [g \in Gens |->
                IF su[g]["discord"].pc \in {"open", "run"}
                THEN [su[g] EXCEPT !["discord"].runDone = TRUE] ELSE su[g]],
     errs |-> IF a["discord"].sess # 0
              THEN {NilErr, Err("discord close failed")}
              ELSE {NilErr}]

ChannelStop(ch, a, su) ==
    IF ch = "telegram" THEN TelegramStop(a, su) ELSE DiscordStop(a, su)

\* one iteration of the Stop loop of StopAll; after the last one it returns nil
StopAllLoop(ch) ==
    /\ ctl.pc = "so_loop"
    /\ ch \in ctl.todo
    /\ LET r == ChannelStop(ch, adapter, sup)
       IN /\ adapter' = r.adapter
          /\ sup' = r.sup
          /\ \E err \in r.errs :
                IF err.kind # "nil"
                THEN /\ lastErrorByChannel' =
                           setChannelError(lastErrorByChannel, ch, err.text)
                     /\ mgrLog' = NoteError(mgrLog, ch)
                ELSE UNCHANGED <<lastErrorByChannel, mgrLog>>
    /\ ctl' = IF ctl.todo = {ch}
              THEN [ctl EXCEPT !.pc = "idle", !.todo = {}, !.ret = Ret("StopAll", TRUE)]
              ELSE [ctl EXCEPT !.todo = @ \ {ch}]
    /\ UNCHANGED <<running, stopOnceDone, rootDone, gen, disp,
                   nPublished, sendLog, sched, outbound>>
    /\ UNCHANGED notMgr

\* the ctx handed to StartAll is cancelled
CancelRoot ==
    /\ ~rootDone
    /\ gen > 0
    /\ rootDone' = TRUE
    /\ UNCHANGED <<running, stopOnceDone, lastErrorByChannel, ctl, gen, disp, sup,
                   adapter, nPublished, sendLog, mgrLog, sched, outbound>>
    /\ UNCHANGED notMgr

supFrame == <<running, stopOnceDone, rootDone, ctl, gen, disp,
              nPublished, sendLog, mgrLog, sched, outbound>>

\* telegram.Channel.Start up to b.Start(runCtx), or its early error return
TelegramStart(g) ==
    /\ sched = "supervision"
    /\ sup[g]["telegram"].pc = "start"
    /\ \/ /\ sup' = [sup EXCEPT ![g]["telegram"].pc = "returned",
                                ![g]["telegram"].err = Err("telegram token is empty")]
          /\ UNCHANGED adapter
       \/ /\ adapter' = [adapter EXCEPT !["telegram"] = [running |-> TRUE, sess |-> g]]
          /\ sup' = [sup EXCEPT ![g]["telegram"].pc = "run"]
    /\ UNCHANGED <<lastErrorByChannel, supFrame>>
    /\ UNCHANGED notMgr

\* b.Start(runCtx) returns once runCtx is done; the deferred cleanups run
TelegramStartReturn(g) ==
    /\ sched = "supervision"
    /\ sup[g]["telegram"].pc = "run"
    /\ rootDone \/ sup[g]["telegram"].runDone
    /\ adapter' = [adapter EXCEPT !["telegram"] = [running |-> FALSE, sess |-> 0]]
    /\ sup' = [sup EXCEPT ![g]["telegram"] =
                    [pc |-> "returned", err |-> Canceled, runDone |-> FALSE]]
    /\ UNCHANGED <<lastErrorByChannel, supFrame>>
    /\ UNCHANGED notMgr

\* discord.Channel.Start up to dg.Open() (the configured token is not empty)
DiscordStart(g) ==
    /\ sched = "supervision"
    /\ sup[g]["discord"].pc = "start"
    /\ adapter' = [adapter EXCEPT !["discord"] = [running |-> TRUE, sess |-> g]]
    /\ sup' = [sup EXCEPT ![g]["discord"].pc = "open"]
    /\ UNCHANGED <<lastErrorByChannel, supFrame>>
    /\ UNCHANGED notMgr

\* the deferred cleanups of discord.Channel.Start
DiscordCleanup(g) ==
    [adapter EXCEPT !["discord"].running = FALSE,
                    !["discord"].sess = IF @ = g THEN 0 ELSE @]

\* dg.Open() fails (Start returns the error) or succeeds (Start blocks on ctx)
DiscordOpen(g) ==
    /\ sched = "supervision"
    /\ sup[g]["discord"].pc = "open"
    /\ \/ /\ adapter' = DiscordCleanup(g)
          /\ sup' = [sup EXCEPT ![g]["discord"].pc = "returned",
                                ![g]["discord"].err = Err("discord open failed")]
       \/ /\ sup' = [sup EXCEPT ![g]["discord"].pc = "run"]
          /\ UNCHANGED adapter
    /\ UNCHANGED <<lastErrorByChannel, supFrame>>
    /\ UNCHANGED notMgr

\* <-ctx.Done(); return ctx.Err()
DiscordStartReturn(g) ==
    /\ sched = "supervision"
    /\ sup[g]["discord"].pc = "run"
    /\ rootDone
    /\ adapter' = DiscordCleanup(g)
    /\ sup' = [sup EXCEPT ![g]["discord"].pc = "returned",
                          ![g]["discord"].err = Canceled]
    /\ UNCHANGED <<lastErrorByChannel, supFrame>>
    /\ UNCHANGED notMgr

\* the supervision goroutine after ch.Start returned
SupRecord(g, ch) ==
    /\ sched = "supervision"
    /\ sup[g][ch].pc = "returned"
    /\ LET err == sup[g][ch].err
       IN IF err.kind = "nil" \/ IsCanceled(err)
          THEN UNCHANGED <<lastErrorByChannel, mgrLog>>
          ELSE /\ lastErrorByChannel' =
                     setChannelError(lastErrorByChannel, ch, err.text)
               /\ mgrLog' = NoteError(mgrLog, ch)
    /\ sup' = [sup EXCEPT ![g][ch] = [pc |-> "done", err |-> NilErr, runDone |-> FALSE]]
    /\ UNCHANGED <<adapter, running, stopOnceDone, rootDone, ctl, gen, disp,
                   nPublished, sendLog, sched, outbound>>
    /\ UNCHANGED notMgr

\* the agent publishes the next outbound message (PublishOutbound)
AgentPublish ==
    /\ sched = "dispatch"
    /\ nPublished < MaxMsgs
    /\ BusHasSpace(outbound)
    /\ \E ch \in Names :
         outbound' = BusEnqueue(outbound, [id |-> nPublished + 1, channel |-> ch])
    /\ nPublished' = nPublished + 1
    /\ mgrLog' = IF rootDone
                 THEN [mgrLog EXCEPT !.late = @ \cup {nPublished + 1}]
                 ELSE mgrLog
    /\ UNCHANGED <<running, stopOnceDone, lastErrorByChannel, rootDone, ctl, gen,
                   disp, sup, adapter, sendLog, sched>>
    /\ UNCHANGED notMgr

dispFrame == <<running, stopOnceDone, rootDone, ctl, gen, sup, adapter, nPublished, sched>>

\* msg, err := m.bus.ConsumeOutbound(ctx) returns a message
DispConsume(g) ==
    /\ disp[g].pc = "consume"
    /\ BusHasMessage(outbound)
    /\ disp' = [disp EXCEPT ![g].pc = "got", ![g].msg = Head(outbound)]
    /\ outbound' = BusRest(outbound)
    /\ UNCHANGED <<lastErrorByChannel, sendLog, mgrLog, dispFrame>>
    /\ UNCHANGED notMgr

\* ConsumeOutbound returns the ctx error: the dispatcher returns
DispExit(g) ==
    /\ disp[g].pc = "consume"
    /\ rootDone
    /\ disp' = [disp EXCEPT ![g].pc = "done"]
    /\ UNCHANGED <<lastErrorByChannel, sendLog, mgrLog, outbound, dispFrame>>
    /\ UNCHANGED notMgr

\* where the dispatcher goes after dropping a message for an unknown channel
AfterDrop_Return == "done"

AfterDrop == "consume"

\* ch := m.channels[msg.Channel]; drop when nil, else call ch.Send(ctx, msg)
DispLookup(g) ==
    /\ disp[g].pc = "got"
    /\ IF disp[g].msg.channel \notin Channels
       THEN /\ disp' = [disp EXCEPT ![g].pc = AfterDrop, ![g].msg = NoMsg]
            /\ mgrLog' = [mgrLog EXCEPT !.dropped = @ \cup {disp[g].msg.id}]
            /\ UNCHANGED sendLog
       ELSE /\ disp' = [disp EXCEPT ![g].pc = "sending"]
            /\ sendLog' = Append(sendLog, disp[g].msg)
            /\ UNCHANGED mgrLog
    /\ UNCHANGED <<lastErrorByChannel, outbound, dispFrame>>
    /\ UNCHANGED notMgr

\* what telegram.Channel.Send can return for a message with text
TelegramSend ==
    {NilErr, Err("telegram send failed")} \cup (IF rootDone THEN {Canceled} ELSE {})

\* what discord.Channel.Send can return for a message with text
DiscordSend ==
    {NilErr, Err("discord send failed")} \cup (IF rootDone THEN {Canceled} ELSE {})

ChannelSend(ch) == IF ch = "telegram" THEN TelegramSend ELSE DiscordSend

\* ch.Send(ctx, msg) returns err
DispSendReturn(g) ==
    /\ disp[g].pc = "sending"
    /\ \E err \in ChannelSend(disp[g].msg.channel) :
         disp' = [disp EXCEPT ![g].pc = "sent", ![g].err = err]
    /\ UNCHANGED <<lastErrorByChannel, sendLog, mgrLog, outbound, dispFrame>>
    /\ UNCHANGED notMgr

\* where the dispatcher goes after a Send that returned an error
AfterSendError_Return == "done"

AfterSendError == "consume"

\* a non-cancellation error becomes the channel's lastError; next iteration
DispRecord(g) ==
    /\ disp[g].pc = "sent"
    /\ LET err == disp[g].err
       IN /\ IF err.kind # "nil" /\ ~IsCanceled(err)
             THEN /\ lastErrorByChannel' =
                        setChannelError(lastErrorByChannel, disp[g].msg.channel,
                                        err.text)
                  /\ mgrLog' = NoteError(mgrLog, disp[g].msg.channel)
             ELSE UNCHANGED <<lastErrorByChannel, mgrLog>>
          /\ disp' = [disp EXCEPT
                        ![g].pc = IF err.kind = "nil" THEN "consume" ELSE AfterSendError,
                        ![g].msg = NoMsg,
                        ![g].err = NilErr]
    /\ UNCHANGED <<sendLog, outbound, dispFrame>>
    /\ UNCHANGED notMgr

NextMgr ==
    \/ StartAllEnter
    \/ StartAllSpawnDispatcher
    \/ \E ch \in Channels : StartAllLoop(ch)
    \/ StopAllEnter
    \/ \E ch \in Channels : StopAllLoop(ch)
    \/ CancelRoot
    \/ AgentPublish
    \/ \E g \in Gens : TelegramStart(g)
    \/ \E g \in Gens : TelegramStartReturn(g)
    \/ \E g \in Gens : DiscordStart(g)
    \/ \E g \in Gens : DiscordOpen(g)
    \/ \E g \in Gens : DiscordStartReturn(g)
    \/ \E g \in Gens, ch \in Channels : SupRecord(g, ch)
    \/ \E g \in Gens : DispConsume(g)
    \/ \E g \in Gens : DispExit(g)
    \/ \E g \in Gens : DispLookup(g)
    \/ \E g \in Gens : DispSendReturn(g)
    \/ \E g \in Gens : DispRecord(g)

(***************************************************************************)
(* Channel.Send of the three adapters, on the fields of the message.  A    *)
(* call runs to its return in one step; called tells whether it reached    *)
(* the provider (SendMessage, ChannelMessageSend, POST /messages).         *)
(***************************************************************************)
SendAdapters == {"telegram", "discord", "whatsapp"}
ChatIDValues == { << >>, <<" ">>, <<"4", "2">> }
ContentValues == { << >>, <<" ">>, <<"h", "i">> }

SendOutcome(ret, called) == [ret |-> ret, called |-> called]

\* what the provider call of a Send can come back with
ProviderOutcomes == {SendOutcome("nil", TRUE), SendOutcome("send failed", TRUE)}

\* telegram: text, then chat id, then the bot
telegramSend(chatID, content, connected, ctxDone) ==
    IF TrimSpace(content) = << >> THEN {SendOutcome("nil", FALSE)}
    ELSE IF TrimSpace(chatID) = << >>
         THEN {SendOutcome("chat_id is empty", FALSE)}
    ELSE IF ~connected THEN {SendOutcome("telegram not connected", FALSE)}
    ELSE ProviderOutcomes

\* discord: chat id, then content, then the session, then ctx
discordSend(chatID, content, connected, ctxDone) ==
    IF TrimSpace(chatID) = << >>
    THEN {SendOutcome("chat_id is empty", FALSE)}
    ELSE IF TrimSpace(content) = << >> THEN {SendOutcome("nil", FALSE)}
    ELSE IF ~connected THEN {SendOutcome("discord not connected", FALSE)}
    ELSE IF ctxDone THEN {SendOutcome("context canceled", FALSE)}
    ELSE ProviderOutcomes

\* whatsapp: chat id, then content, then the HTTP request
whatsappSend(chatID, content, connected, ctxDone) ==
    IF TrimSpace(chatID) = << >>
    THEN {SendOutcome("chat_id is empty", FALSE)}
    ELSE IF TrimSpace(content) = << >> THEN {SendOutcome("nil", FALSE)}
    ELSE ProviderOutcomes

IdleSend == [pc |-> "idle", adapter |-> "telegram", chatID |-> << >>,
             content |-> << >>, connected |-> FALSE, ctxDone |-> FALSE,
             ret |-> "none", called |-> FALSE]

InitSend == sendCall = IdleSend

\* somebody calls Send on an adapter with a message
SendCall ==
    /\ sendCall.pc # "called"
    /\ \E a \in SendAdapters, chatID \in ChatIDValues, content \in ContentValues,
          connected \in BOOLEAN, ctxDone \in BOOLEAN :
         sendCall' = [pc |-> "called", adapter |-> a, chatID |-> chatID,
                      content |-> content, connected |-> connected,
                      ctxDone |-> ctxDone, ret |-> "none", called |-> FALSE]
    /\ UNCHANGED notSend

SendReturns(outcomes) ==
    \E o \in outcomes :
        sendCall' = [sendCall EXCEPT !.pc = "returned", !.ret = o.ret,
                                     !.called = o.called]

TelegramSendMsg ==
    /\ sendCall.pc = "called" /\ sendCall.adapter = "telegram"
    /\ SendReturns(telegramSend(sendCall.chatID, sendCall.content,
                                sendCall.connected, sendCall.ctxDone))
    /\ UNCHANGED notSend

DiscordSendMsg ==
    /\ sendCall.pc = "called" /\ sendCall.adapter = "discord"
    /\ SendReturns(discordSend(sendCall.chatID, sendCall.content,
                               sendCall.connected, sendCall.ctxDone))
    /\ UNCHANGED notSend

WhatsAppSendMsg ==
    /\ sendCall.pc = "called" /\ sendCall.adapter = "whatsapp"
    /\ SendReturns(whatsappSend(sendCall.chatID, sendCall.content,
                                sendCall.connected, sendCall.ctxDone))
    /\ UNCHANGED notSend

NextSend ==
    \/ SendCall
    \/ TelegramSendMsg
    \/ DiscordSendMsg
    \/ WhatsAppSendMsg

(***************************************************************************)
(* The provider calls of a Send whose message has content and a chat id,   *)
(* on a connected adapter: sendMessageWithRetry (telegram, called for the  *)
(* HTML text and again for the plain text after a parse error), the loop   *)
(* of discord's Send, and whatsapp's sendMessage.  Durations are in ms.    *)
(***************************************************************************)
maxAttempts == 3

ReplyValues == { << >>, <<" ">>, <<"7">>, <<"5", " ">>, <<"0">>, <<"x">> }
RetryAfterHeaders == { << >>, <<"2">>, <<"x">> }

DigitValue(ch) ==
    CASE ch = "0" -> 0 [] ch = "2" -> 2 [] ch = "5" -> 5 [] ch = "7" -> 7
      [] OTHER -> -1

\* strconv.ParseInt / strconv.Atoi of an unsigned decimal: [ok, n]
RECURSIVE ParseInt(_)
ParseInt(s) ==
    IF s = << >> THEN [ok |-> FALSE, n |-> 0]
    ELSE LET d == DigitValue(s[Len(s)])
         IN IF d < 0 THEN [ok |-> FALSE, n |-> 0]
            ELSE IF Len(s) = 1 THEN [ok |-> TRUE, n |-> d]
            ELSE LET r == ParseInt(SubSeq(s, 1, Len(s) - 1))
                 IN [ok |-> r.ok, n |-> IF r.ok THEN 10 * r.n + d ELSE 0]

\* the header values here are no HTTP dates: http.ParseTime fails on them
parseRetryAfter(v) ==
    LET secs == ParseInt(TrimSpace(v))
    IN IF TrimSpace(v) = << >> THEN 0
       ELSE IF secs.ok /\ secs.n >= 0 THEN secs.n * 1000
       ELSE 0

\* an error of a provider call.  kind "ratelimit" is the vendor's typed
\* rate-limit error (tgbot.TooManyRequestsError, discordgo.RateLimitError),
\* "http" an error that carries a status (discordgo.RESTError,
\* whatsappHTTPError, telegram's "... sendMessage, 502 ..."), "parse"
\* telegram's 400 "can't parse entities", "net" a net.Error
SendErr(kind, status, retryAfter, transient) ==
    [kind |-> kind, status |-> status, retryAfter |-> retryAfter,
     transient |-> transient]

NoSendErr == SendErr("nil", 0, 0, FALSE)
CtxCanceled == SendErr("canceled", 0, 0, FALSE)
CtxDeadline == SendErr("deadline", 0, 0, FALSE)

CommonErrors ==
    {CtxCanceled, CtxDeadline, SendErr("other", 0, 0, FALSE)}
        \cup {SendErr("net", 0, 0, t) : t \in BOOLEAN}

ProviderErrors(a) ==
    CASE a = "telegram" ->
           CommonErrors
             \cup {SendErr("ratelimit", 429, ra, FALSE) : ra \in {0, 2000}}
             \cup {SendErr("http", st, 0, FALSE) : st \in {400, 502}}
             \cup {SendErr("parse", 400, 0, FALSE)}
      [] a = "discord" ->
           CommonErrors
             \cup {SendErr("ratelimit", 429, ra, FALSE) : ra \in {0, 2000}}
             \cup {SendErr("http", st, 0, FALSE) : st \in {400, 429, 502}}
      [] OTHER ->
           CommonErrors
             \cup {SendErr("http", st, parseRetryAfter(h), FALSE) :
                     st \in {400, 429, 502}, h \in RetryAfterHeaders}

\* what one provider call can come back with; telegram and whatsapp hand
\* ctx to the HTTP request, which fails at once when ctx is done
ProviderCall(a, ctxDone) ==
    IF ctxDone /\ a # "discord" THEN {CtxCanceled}
    ELSE {NoSendErr} \cup ProviderErrors(a)

telegramSendBackoff(attempt) ==
    LET at == IF attempt < 1 THEN 1 ELSE attempt
        shift == IF at - 1 < 4 THEN at - 1 ELSE 4
    IN 300 * Pow2(shift)

discordSendBackoff(attempt) ==
    LET at == IF attempt < 1 THEN 1 ELSE attempt
        shift == IF at - 1 < 4 THEN at - 1 ELSE 4
    IN 300 * Pow2(shift)

whatsappSendBackoff_Flat(attempt) == 300

whatsappSendBackoff(attempt) ==
    LET at == IF attempt < 1 THEN 1 ELSE attempt
        shift == IF at - 1 < 4 THEN at - 1 ELSE 4
    IN 300 * Pow2(shift)

Retry(wait) == [retry |-> TRUE, wait |-> wait]
NoRetry == [retry |-> FALSE, wait |-> 0]

shouldRetryTelegramSend_No5xx(err, attempt) ==
    IF err.kind = "ratelimit"
    THEN IF err.retryAfter > 0 THEN Retry(err.retryAfter)
         ELSE Retry(telegramSendBackoff(attempt))
    ELSE IF err.kind = "net" /\ err.transient
         THEN Retry(telegramSendBackoff(attempt))
    ELSE NoRetry

shouldRetryTelegramSend(err, attempt) ==
    IF err.kind = "nil" THEN NoRetry
    ELSE IF err.kind \in {"canceled", "deadline"} THEN NoRetry
    ELSE IF err.kind = "ratelimit"
         THEN IF err.retryAfter > 0 THEN Retry(err.retryAfter)
              ELSE Retry(telegramSendBackoff(attempt))
    ELSE IF err.kind = "net" /\ err.transient
         THEN Retry(telegramSendBackoff(attempt))
    ELSE IF err.kind = "http" /\ err.status >= 500 /\ err.status <= 599
         THEN Retry(telegramSendBackoff(attempt))
    ELSE NoRetry

shouldRetryDiscordSend(err, attempt) ==
    IF err.kind = "nil" THEN NoRetry
    ELSE IF err.kind \in {"canceled", "deadline"} THEN NoRetry
    ELSE IF err.kind = "ratelimit"
         THEN IF err.retryAfter > 0 THEN Retry(err.retryAfter)
              ELSE Retry(discordSendBackoff(attempt))
    ELSE IF err.kind = "http"
         THEN IF err.status = 429 \/ (err.status >= 500 /\ err.status <= 599)
              THEN Retry(discordSendBackoff(attempt))
              ELSE NoRetry
    ELSE IF err.kind = "net" /\ err.transient
         THEN Retry(discordSendBackoff(attempt))
    ELSE NoRetry

shouldRetryWhatsAppSend(err, attempt) ==
    IF err.kind = "nil" THEN NoRetry
    ELSE IF err.kind \in {"canceled", "deadline"} THEN NoRetry
    ELSE IF err.kind = "http"
         THEN IF err.status = 429
              THEN IF err.retryAfter > 0 THEN Retry(err.retryAfter)
                   ELSE Retry(whatsappSendBackoff(attempt))
              ELSE IF err.status >= 500 /\ err.status <= 599
                   THEN Retry(whatsappSendBackoff(attempt))
                   ELSE NoRetry
    ELSE IF err.kind = "net" /\ err.transient
         THEN Retry(whatsappSendBackoff(attempt))
    ELSE NoRetry

shouldRetrySend(a, err, attempt) ==
    CASE a = "telegram" -> shouldRetryTelegramSend(err, attempt)
      [] a = "discord" -> shouldRetryDiscordSend(err, attempt)
      [] OTHER -> shouldRetryWhatsAppSend(err, attempt)

isTelegramParseError(err) == err.kind = "parse"

\* the first candidate that is non-blank, parses and is positive; else 0
resolveTelegramReplyTarget(deliveryReplyToID, replyTo) ==
    LET c1 == TrimSpace(deliveryReplyToID)
        c2 == TrimSpace(replyTo)
        good(c) == c # << >> /\ ParseInt(c).ok /\ ParseInt(c).n > 0
    IN IF good(c1) THEN ParseInt(c1).n
       ELSE IF good(c2) THEN ParseInt(c2).n
       ELSE 0

resolveDiscordReplyTarget(deliveryReplyToID, replyTo) ==
    IF TrimSpace(deliveryReplyToID) # << >> THEN TrimSpace(deliveryReplyToID)
    ELSE TrimSpace(replyTo)

resolveWhatsAppReplyTarget(deliveryReplyToID, replyTo) ==
    IF TrimSpace(deliveryReplyToID) # << >> THEN TrimSpace(deliveryReplyToID)
    ELSE IF TrimSpace(replyTo) # << >> THEN TrimSpace(replyTo)
    ELSE << >>

\* telegram's params: the HTML rendering with ParseModeHTML, then the trimmed
\* text with no parse mode
HTMLParams == [text |-> "markdownToTelegramHTML(text)", parseMode |-> "HTML"]
PlainParams == [text |-> "text", parseMode |-> ""]

IdlePath == [pc |-> "idle", adapter |-> "telegram", deliveryReplyToID |-> << >>,
             replyTo |-> << >>, replyID |-> 0, replyStr |-> << >>,
             params |-> PlainParams, attempt |-> 1, err |-> NoSendErr,
             wait |-> 0, ret |-> NoSendErr, calls |-> 0, fallbacks |-> 0,
             ctxDone |-> FALSE, recorded |-> NoSendErr]

InitSendPath == sendPath = IdlePath

\* Send up to its first provider call: the reply target is resolved; discord
\* fails fast when ctx is already done
SendPathBegin ==
    /\ sendPath.pc = "idle"
    /\ \E a \in SendAdapters, d \in ReplyValues, r \in ReplyValues,
          done \in BOOLEAN :
         sendPath' =
           [IdlePath EXCEPT
              !.adapter = a,
              !.deliveryReplyToID = d,
              !.replyTo = r,
              !.ctxDone = done,
              !.replyID = IF a = "telegram"
                          THEN resolveTelegramReplyTarget(d, r) ELSE 0,
              !.replyStr = CASE a = "discord" -> resolveDiscordReplyTarget(d, r)
                             [] a = "whatsapp" -> resolveWhatsAppReplyTarget(d, r)
                             [] OTHER -> << >>,
              !.params = IF a = "telegram" THEN HTMLParams ELSE PlainParams,
              !.pc = IF a = "discord" /\ done THEN "returned" ELSE "attempt",
              !.ret = IF a = "discord" /\ done THEN CtxCanceled ELSE NoSendErr]
    /\ UNCHANGED notSendPath

\* the retry loop returns err to Send: telegram's Send goes on to the plain
\* text when the HTML send ended in a parse error, else Send returns err
FallbackAfter_AnyError(p, err) == p.params = HTMLParams /\ err.kind # "nil"

FallbackAfter(p, err) ==
    p.adapter = "telegram" /\ p.params = HTMLParams /\ isTelegramParseError(err)

LoopReturns(p, err) ==
    IF FallbackAfter(p, err)
    THEN [p EXCEPT !.pc = "attempt", !.params = PlainParams, !.attempt = 1,
                   !.err = err, !.wait = 0, !.fallbacks = @ + 1]
    ELSE [p EXCEPT !.pc = "returned", !.ret = err, !.wait = 0]

LastAttempt(attempt) == attempt = maxAttempts

\* one iteration of the loop: the provider call, and on an error either the
\* return or the timer of the wait
SendAttempt ==
    /\ sendPath.pc = "attempt"
    /\ \E err \in ProviderCall(sendPath.adapter, sendPath.ctxDone) :
         LET p == [sendPath EXCEPT !.calls = @ + 1, !.err = err]
             d == shouldRetrySend(p.adapter, err, p.attempt)
         IN sendPath' =
              IF err.kind = "nil" THEN LoopReturns(p, NoSendErr)
              ELSE IF ~d.retry \/ LastAttempt(p.attempt) THEN LoopReturns(p, err)
              ELSE [p EXCEPT !.pc = "wait", !.wait = d.wait]
    /\ UNCHANGED notSendPath

\* the timer fires while ctx is live: the next attempt
SendTimer ==
    /\ sendPath.pc = "wait"
    /\ ~sendPath.ctxDone
    /\ sendPath' = [sendPath EXCEPT !.pc = "attempt", !.attempt = @ + 1,
                                    !.wait = 0]
    /\ UNCHANGED notSendPath

\* ctx is done before the timer fires: the loop returns ctx.Err()
SendWaitCancelled ==
    /\ sendPath.pc = "wait"
    /\ sendPath.ctxDone
    /\ sendPath' = LoopReturns(sendPath, CtxCanceled)
    /\ UNCHANGED notSendPath

SendCtxCancel ==
    /\ sendPath.pc \in {"attempt", "wait"}
    /\ ~sendPath.ctxDone
    /\ sendPath' = [sendPath EXCEPT !.ctxDone = TRUE]
    /\ UNCHANGED notSendPath

\* the error the dispatcher hands to setChannelError after a Send with the
\* state p, NoSendErr when it makes no such call
Recorded_AttemptError(p) == p.err

Recorded(p) ==
    IF p.ret.kind # "nil" /\ ~IsCanceled(p.ret) THEN p.ret ELSE NoSendErr

\* the dispatcher has the result of Send and records it when it is an error
\* other than a cancellation
SendPathRecord ==
    /\ sendPath.pc = "returned"
    /\ sendPath' = [sendPath EXCEPT !.pc = "recorded", !.recorded = Recorded(sendPath)]
    /\ UNCHANGED notSendPath

\* the dispatcher's next iteration
SendPathEnd ==
    /\ sendPath.pc = "recorded"
    /\ sendPath' = IdlePath
    /\ UNCHANGED notSendPath

NextSendPath ==
    \/ SendPathBegin
    \/ SendPathRecord
    \/ SendPathEnd
    \/ SendAttempt
    \/ SendTimer
    \/ SendWaitCancelled
    \/ SendCtxCancel

(***************************************************************************)
(* The inbound event handlers: telegram's onUpdate, discord's              *)
(* onMessageCreate and whatsapp's handleInbound for a POST that carries at *)
(* most one message.  allowed is what c.allow.Allowed(senderID) answers.   *)
(* A handler that publishes blocks in PublishInbound while the Inbound     *)
(* queue is full; waited counts the seconds it has been blocked.           *)
(***************************************************************************)
MaxBlock == 3

PublishDeadline == 2

Authors == {"nil", "bot", "user"}
AppSecrets == { << >>, <<" ">>, <<"k">> }
\* X-Hub-Signature-256: prefix and digest; "good" is the hex of the HMAC of
\* the body under the app secret, "bad" the hex of another digest
SignatureHeaders ==
    { [prefix |-> "sha256=", mac |-> "good"], [prefix |-> "SHA256=", mac |-> "good"],
      [prefix |-> "sha256=", mac |-> "bad"], [prefix |-> "sha256=", mac |-> "nothex"],
      [prefix |-> "", mac |-> "good"] }

NoInbound == [channel |-> "", chatID |-> << >>, content |-> << >>,
              attachments |-> 0, sessionKey |-> << >>]

\* a session key is a prefix word followed by the characters of the chat id
InboundMessage(channel, chatID, content, attachments, sessionKey) ==
    [channel |-> channel, chatID |-> chatID, content |-> content,
     attachments |-> attachments, sessionKey |-> sessionKey]

telegramMessageContent(text, caption) ==
    IF TrimSpace(text) # << >> THEN TrimSpace(text) ELSE TrimSpace(caption)

\* the message onUpdate publishes, NoInbound when it returns without one
onUpdate_NoEmptyCheck(evt) ==
    IF evt.author # "user" THEN NoInbound
    ELSE IF ~evt.allowed THEN NoInbound
    ELSE InboundMessage("telegram", evt.chatID,
                        telegramMessageContent(evt.text, evt.caption),
                        evt.attachments, <<"telegram:">> \o evt.chatID)

onUpdate(evt) ==
    IF evt.author # "user" THEN NoInbound
    ELSE IF ~evt.allowed THEN NoInbound
    ELSE LET content == telegramMessageContent(evt.text, evt.caption)
         IN IF content = << >> /\ evt.attachments = 0 THEN NoInbound
            ELSE InboundMessage("telegram", evt.chatID, content,
                                evt.attachments, <<"telegram:">> \o evt.chatID)

onMessageCreate_NoBotFilter(evt) ==
    IF evt.author = "nil" THEN NoInbound
    ELSE IF ~evt.allowed THEN NoInbound
    ELSE IF TrimSpace(evt.chatID) = << >> \/ TrimSpace(evt.text) = << >>
         THEN NoInbound
    ELSE InboundMessage("discord", TrimSpace(evt.chatID), TrimSpace(evt.text), 0,
                        <<"discord:">> \o TrimSpace(evt.chatID))

onMessageCreate(evt) ==
    IF evt.author = "nil" THEN NoInbound
    ELSE IF evt.author = "bot" THEN NoInbound
    ELSE IF ~evt.allowed THEN NoInbound
    ELSE IF TrimSpace(evt.chatID) = << >> \/ TrimSpace(evt.text) = << >>
         THEN NoInbound
    ELSE InboundMessage("discord", TrimSpace(evt.chatID), TrimSpace(evt.text), 0,
                        <<"discord:">> \o TrimSpace(evt.chatID))

verifyWhatsAppSignature_NoSecretShortcut(appSecret, header) ==
    IF header.prefix \notin {"sha256=", "SHA256="} THEN FALSE
    ELSE IF header.mac = "nothex" THEN FALSE
    ELSE header.mac = "good"

verifyWhatsAppSignature(appSecret, header) ==
    IF TrimSpace(appSecret) = << >> THEN TRUE
    ELSE IF header.prefix \notin {"sha256=", "SHA256="} THEN FALSE
    ELSE IF header.mac = "nothex" THEN FALSE
    ELSE header.mac = "good"

\* the events of a payload with one text message: none when its body or its
\* sender is blank
extractWhatsAppInboundMessages(evt) ==
    IF TrimSpace(evt.text) = << >> THEN << >>
    ELSE IF TrimSpace(evt.chatID) = << >> THEN << >>
    ELSE << [senderID |-> TrimSpace(evt.chatID), chatID |-> TrimSpace(evt.chatID),
             content |-> TrimSpace(evt.text)] >>

\* the status handleInbound answers and the message it publishes
handleInbound(evt) ==
    IF ~verifyWhatsAppSignature(evt.appSecret, evt.signature)
    THEN [status |-> 401, msg |-> NoInbound]
    ELSE IF ~evt.jsonOK THEN [status |-> 400, msg |-> NoInbound]
    ELSE LET events == extractWhatsAppInboundMessages(evt)
         IN IF events = << >> \/ ~evt.allowed
            THEN [status |-> 200, msg |-> NoInbound]
            ELSE [status |-> 200,
                  msg |-> InboundMessage("whatsapp", events[1].chatID,
                                         events[1].content, 0,
                                         <<"whatsapp:">> \o events[1].chatID)]

NoEvent == [adapter |-> "none"]

IdleHandler == [pc |-> "idle", evt |-> NoEvent, msg |-> NoInbound,
                deadline |-> FALSE, waited |-> 0, status |-> 0,
                published |-> FALSE]

InitHandler == handler = IdleHandler

\* the handler runs up to its PublishInbound call, or to its return
Handle(evt, msg, deadline, status) ==
    handler' = [pc |-> IF msg = NoInbound THEN "done" ELSE "publishing",
                evt |-> evt, msg |-> msg, deadline |-> deadline, waited |-> 0,
                status |-> status, published |-> FALSE]

\* telegram: publishCtx has a 2 s timeout
TelegramOnUpdate ==
    /\ handler.pc = "idle"
    /\ \E author \in Authors, allowed \in BOOLEAN, text \in ContentValues,
          caption \in {<< >>, <<"c">>}, attachments \in {0, 1} :
         LET evt == [adapter |-> "telegram", author |-> author,
                     allowed |-> allowed, chatID |-> <<"4", "2">>,
                     text |-> text, caption |-> caption,
                     attachments |-> attachments]
         IN Handle(evt, onUpdate(evt), TRUE, 0)
    /\ UNCHANGED <<inbound, notHandler>>

\* discord: the ctx of PublishInbound is the ctx Start was called with
DiscordOnMessageCreate ==
    /\ handler.pc = "idle"
    /\ \E author \in Authors, allowed \in BOOLEAN, text \in ContentValues,
          chatID \in ChatIDValues :
         LET evt == [adapter |-> "discord", author |-> author,
                     allowed |-> allowed, chatID |-> chatID, text |-> text]
         IN Handle(evt, onMessageCreate(evt), FALSE, 0)
    /\ UNCHANGED <<inbound, notHandler>>

\* whatsapp: publishCtx has a 2 s timeout; the status is written last
WhatsAppHandleInbound ==
    /\ handler.pc = "idle"
    /\ \E appSecret \in AppSecrets, signature \in SignatureHeaders,
          jsonOK \in BOOLEAN, allowed \in BOOLEAN, text \in ContentValues,
          chatID \in ChatIDValues :
         LET evt == [adapter |-> "whatsapp", appSecret |-> appSecret,
                     signature |-> signature, jsonOK |-> jsonOK,
                     allowed |-> allowed, chatID |-> chatID, text |-> text]
             res == handleInbound(evt)
         IN Handle(evt, res.msg, TRUE, res.status)
    /\ UNCHANGED <<inbound, notHandler>>

\* PublishInbound enqueues the message and returns nil
HandlerPublishEnqueue ==
    /\ handler.pc = "publishing"
    /\ BusHasSpace(inbound)
    /\ inbound' = BusEnqueue(inbound, handler.msg)
    /\ handler' = [handler EXCEPT !.pc = "done", !.published = TRUE]
    /\ UNCHANGED notHandler

HasDeadline(h) == h.deadline

\* a second passes while PublishInbound is blocked on the full queue
HandlerBlocked ==
    /\ handler.pc = "publishing"
    /\ ~BusHasSpace(inbound)
    /\ handler.waited < MaxBlock
    /\ HasDeadline(handler) => handler.waited < PublishDeadline
    /\ handler' = [handler EXCEPT !.waited = @ + 1]
    /\ UNCHANGED <<inbound, notHandler>>

\* publishCtx expires: PublishInbound returns its error, the event is dropped
HandlerPublishDeadline ==
    /\ handler.pc = "publishing"
    /\ HasDeadline(handler)
    /\ handler.waited = PublishDeadline
    /\ handler' = [handler EXCEPT !.pc = "done"]
    /\ UNCHANGED <<inbound, notHandler>>

\* the ctx of discord's Start is cancelled: PublishInbound returns its error
HandlerCtxCancel ==
    /\ handler.pc = "publishing"
    /\ ~HasDeadline(handler)
    /\ handler' = [handler EXCEPT !.pc = "done"]
    /\ UNCHANGED <<inbound, notHandler>>

HandlerReturn ==
    /\ handler.pc = "done"
    /\ handler' = IdleHandler
    /\ UNCHANGED <<inbound, notHandler>>

\* the agent's ConsumeInbound takes the head of the queue
AgentConsume ==
    /\ BusHasMessage(inbound)
    /\ inbound' = BusRest(inbound)
    /\ UNCHANGED <<handler, notHandler>>

NextHandler ==
    \/ TelegramOnUpdate
    \/ DiscordOnMessageCreate
    \/ WhatsAppHandleInbound
    \/ HandlerPublishEnqueue
    \/ HandlerBlocked
    \/ HandlerPublishDeadline
    \/ HandlerCtxCancel
    \/ HandlerReturn
    \/ AgentConsume

(***************************************************************************)
(* ClawHubRegistry.Install.  A path is the sequence of its elements, "/"   *)
(* first when it is absolute.  The file system is the set of the regular   *)
(* files under the workspace, whether the skill's target directory exists, *)
(* and whether the downloaded archive is in the temp directory.  Archive   *)
(* entries are regular files of a permitted size; failing system calls     *)
(* other than those named below are left out.                              *)
(***************************************************************************)
MaxEntries == 2

SkillsDir == <<"/", "ws", "skills">>

\* path elements that begin with ".."
DotDotElems == {"..", "..foo"}

SlugValues == { <<"github">>, << >>, <<"..", "x">> }

EntryNames == { <<"SKILL.md">>, <<"README">>, <<".">>,
                <<"..", "evil.txt">>, <<"a", "..", "..", "evil.txt">>,
                <<"a", "..", "SKILL.md">>, <<"/", "etc", "x">>, <<"..foo">>,
                <<"d", "SKILL.md">>, <<"d", "d">> }

\* the archives a download can bring: up to MaxEntries entries, in order
Archives == UNION { [1..n -> EntryNames] : n \in 1..MaxEntries }

\* validateSkillIdentifier: not empty, no separator, no ".."
validateSkillIdentifier(slug) ==
    /\ slug # << >>
    /\ Len(slug) = 1
    /\ slug[1] \notin DotDotElems

RECURSIVE CleanFrom(_, _, _)
\* filepath.Clean, one element at a time: done is the cleaned front
CleanFrom(done, rest, rooted) ==
    IF rest = << >> THEN done
    ELSE LET e == Head(rest)
             next ==
               IF e = "." THEN done
               ELSE IF e = ".."
               THEN IF done # << >> /\ done[Len(done)] # ".."
                    THEN SubSeq(done, 1, Len(done) - 1)
                    ELSE IF rooted THEN done ELSE Append(done, "..")
               ELSE Append(done, e)
         IN CleanFrom(next, Tail(rest), rooted)

IsAbs(p) == p # << >> /\ p[1] = "/"

Clean(p) ==
    IF IsAbs(p) THEN <<"/">> \o CleanFrom(<< >>, Tail(p), TRUE)
    ELSE LET c == CleanFrom(<< >>, p, FALSE)
         IN IF c = << >> THEN <<".">> ELSE c

\* filepath.Join(dir, name) for an absolute dir
Join(dir, name) == Clean(dir \o (IF IsAbs(name) THEN Tail(name) ELSE name))

IsUnder(p, dir) ==
    Len(p) > Len(dir) /\ SubSeq(p, 1, Len(dir)) = dir

\* os.RemoveAll(dir) on the files
RemoveAll(files, dir) == { f \in files : ~IsUnder(f, dir) }

\* strings.HasPrefix(name, "..") || filepath.IsAbs(name)
UnsafeEntry(name) == name[1] \in DotDotElems \/ IsAbs(name)

\* the names directly in dir: the first element below dir of each file
TopNames(files, dir) == { f[Len(dir) + 1] : f \in { g \in files : IsUnder(g, dir) } }

\* normalizeSkillLayout: its error and the files after it
normalizeSkillLayout(files, dir) ==
    LET top == TopNames(files, dir)
        same == [err |-> "", files |-> files]
    IN IF Append(dir, "SKILL.md") \in files THEN same
       ELSE IF Cardinality(top) # 1 THEN same
       ELSE LET d == CHOOSE n \in top : TRUE
                inner == Append(dir, d)
            IN IF inner \in files THEN same
               ELSE IF Append(inner, "SKILL.md") \notin files THEN same
               ELSE IF d \in TopNames(files, inner)
               THEN [err |-> "conflicting path", files |-> files]
               ELSE [err |-> "",
                     files |-> { IF IsUnder(f, inner)
                                 THEN dir \o SubSeq(f, Len(inner) + 1, Len(f))
                                 ELSE f : f \in files }]

NoRequest == [slug |-> << >>, force |-> FALSE, malware |-> FALSE,
              downloadOK |-> FALSE, archive |-> << >>]

IdleInstall(files, dir) ==
    [pc |-> "idle", req |-> NoRequest, target |-> << >>, i |-> 0,
     created |-> FALSE, cleanup |-> FALSE, ret |-> "",
     files |-> files, dir |-> dir, tmp |-> FALSE]

InitInstall == install = IdleInstall({}, FALSE)

\* the deferred functions of Install, run at its return
DeferredCleanup_Skip(st) == [st EXCEPT !.tmp = FALSE]

DeferredCleanup(st) ==
    IF st.cleanup
    THEN [st EXCEPT !.tmp = FALSE, !.dir = FALSE,
                    !.files = RemoveAll(st.files, st.target)]
    ELSE [st EXCEPT !.tmp = FALSE]

\* Install returns err after its deferred functions
InstallFails(st, err) ==
    [DeferredCleanup(st) EXCEPT !.pc = "returned", !.ret = err]

\* Install up to "cleanup := true": the request is validated, an installed
\* skill is kept (error) or removed (force), the target directory is made
InstallCall ==
    /\ install.pc = "idle"
    /\ \E slug \in SlugValues, force \in BOOLEAN, malware \in BOOLEAN,
          downloadOK \in BOOLEAN, archive \in Archives :
         LET req == [slug |-> slug, force |-> force, malware |-> malware,
                     downloadOK |-> downloadOK, archive |-> archive]
             st == [install EXCEPT !.req = req]
         IN install' =
              IF ~validateSkillIdentifier(slug)
              THEN [st EXCEPT !.pc = "returned", !.ret = "invalid slug"]
              ELSE IF install.dir /\ ~force
              THEN [st EXCEPT !.pc = "returned", !.ret = "already installed",
                              !.target = Join(SkillsDir, slug)]
              ELSE [st EXCEPT !.pc = "meta",
                              !.target = Join(SkillsDir, slug),
                              !.files = RemoveAll(install.files,
                                                  Join(SkillsDir, slug)),
                              !.dir = TRUE, !.created = TRUE, !.cleanup = TRUE]
    /\ UNCHANGED notInstall

\* fetchSkillMeta and the malware flag
InstallMeta ==
    /\ install.pc = "meta"
    /\ install' = IF install.req.malware
                  THEN InstallFails(install, "flagged as malware")
                  ELSE [install EXCEPT !.pc = "download"]
    /\ UNCHANGED notInstall

\* downloadSkillArchive: the archive is in a temp file, or an error
InstallDownload ==
    /\ install.pc = "download"
    /\ install' = IF install.req.downloadOK
                  THEN [install EXCEPT !.pc = "extract", !.tmp = TRUE, !.i = 1]
                  ELSE InstallFails(install, "download failed")
    /\ UNCHANGED notInstall

\* one iteration of the loop of extractZipSecure
InstallExtractEntry ==
    /\ install.pc = "extract"
    /\ install.i <= Len(install.req.archive)
    /\ LET name == Clean(install.req.archive[install.i])
       IN install' =
            IF name = <<".">> THEN [install EXCEPT !.i = @ + 1]
            ELSE IF UnsafeEntry(name) THEN InstallFails(install, "unsafe path")
            ELSE [install EXCEPT !.i = @ + 1,
                                 !.files = @ \cup {Join(install.target, name)}]
    /\ UNCHANGED notInstall

\* after the extraction: normalizeSkillLayout, the SKILL.md check,
\* writeSkillOrigin, "cleanup = false"
InstallFinish ==
    /\ install.pc = "extract"
    /\ install.i > Len(install.req.archive)
    /\ LET norm == normalizeSkillLayout(install.files, install.target)
           files == norm.files
       IN install' =
            IF norm.err # ""
            THEN InstallFails(install, norm.err)
            ELSE IF Append(install.target, "SKILL.md") \notin files
            THEN InstallFails([install EXCEPT !.files = files], "no SKILL.md")
            ELSE [DeferredCleanup(
                     [install EXCEPT
                        !.cleanup = FALSE,
                        !.files = files \cup
                                    {Append(install.target, ".skill-origin.json")}])
                  EXCEPT !.pc = "returned", !.ret = "ok"]
    /\ UNCHANGED notInstall

\* the caller has the result; the files stay
InstallReturn ==
    /\ install.pc = "returned"
    /\ install' = IdleInstall(install.files, install.dir)
    /\ UNCHANGED notInstall

NextInstall ==
    \/ InstallCall
    \/ InstallMeta
    \/ InstallDownload
    \/ InstallExtractEntry
    \/ InstallFinish
    \/ InstallReturn

(***************************************************************************)
(* Specifications                                                          *)
(***************************************************************************)
Init == InitLLM /\ InitModels /\ InitBus /\ InitMgr /\ InitSend /\ InitSendPath
        /\ InitHandler /\ InitInstall

\* the Client configured, the other machines at rest
InitForLLM ==
    /\ Init
    /\ cfgSystemPrompt = << >> /\ cfgProvider = "openai"
    /\ probeErr = ErrNone
    /\ busStream = "inbound" /\ sched = "dispatch"

\* the Client with its default pacing and every system prompt
InitForPrompt ==
    /\ Init
    /\ cfgCooldown = 0 /\ cfgMaxRetries = 1 /\ cfgProvider = "openai"
    /\ probeErr = ErrNone
    /\ busStream = "inbound" /\ sched = "dispatch"

\* the Client with its default pacing, one retry and every provider
InitForModels ==
    /\ Init
    /\ cfgCooldown = 0 /\ cfgMaxRetries = 1 /\ cfgSystemPrompt = << >>
    /\ probeErr = ErrNone
    /\ busStream = "inbound" /\ sched = "dispatch"

\* the Client with every provider and every answer to the probe
InitForProbe ==
    /\ Init
    /\ cfgCooldown = 0 /\ cfgMaxRetries = 1 /\ cfgSystemPrompt = << >>
    /\ busStream = "inbound" /\ sched = "dispatch"

\* the Client left unconfigured, the Manager at rest
InitForBus ==
    /\ Init
    /\ cfgCooldown = 0 /\ cfgMaxRetries = 0 /\ cfgSystemPrompt = << >>
    /\ cfgProvider = "openai" /\ probeErr = ErrNone
    /\ sched = "dispatch"

\* the Client left unconfigured; the outbound queue is the Manager's
InitForMgr ==
    /\ Init
    /\ cfgCooldown = 0 /\ cfgMaxRetries = 0 /\ cfgSystemPrompt = << >>
    /\ cfgProvider = "openai" /\ probeErr = ErrNone
    /\ busStream = "outbound"

SpecLLM == InitForLLM /\ [][NextLLM]_vars

SpecPrompt == InitForPrompt /\ [][NextLLM]_vars

SpecModels == InitForModels /\ [][NextModels]_vars

SpecProbe == InitForProbe /\ [][NextProbe]_vars

\* every machine but the adapters' Send at rest
InitForSend == InitForBus /\ busStream = "inbound"

SpecSend == InitForSend /\ [][NextSend]_vars

SpecSendPath == InitForSend /\ [][NextSendPath]_vars

SpecHandler == InitForSend /\ [][NextHandler]_vars

SpecInstall == InitForSend /\ [][NextInstall]_vars

SpecBus == InitForBus /\ [][NextBus]_vars

SpecMgr == InitForMgr /\ [][NextMgr]_vars

\* the Manager while the agent publishes nothing: the caller of StartAll and
\* StopAll, the supervision tasks, and the dispatcher tasks, which wait in
\* ConsumeOutbound until the root ctx is cancelled
InitForSupervision == InitForMgr /\ sched = "supervision"

NextSupervision ==
    \/ StartAllEnter
    \/ StartAllSpawnDispatcher
    \/ \E ch \in Channels : StartAllLoop(ch)
    \/ StopAllEnter
    \/ \E ch \in Channels : StopAllLoop(ch)
    \/ CancelRoot
    \/ \E g \in Gens : TelegramStart(g)
    \/ \E g \in Gens : TelegramStartReturn(g)
    \/ \E g \in Gens : DiscordStart(g)
    \/ \E g \in Gens : DiscordOpen(g)
    \/ \E g \in Gens : DiscordStartReturn(g)
    \/ \E g \in Gens, ch \in Channels : SupRecord(g, ch)
    \/ \E g \in Gens : DispExit(g)

\* the Go scheduler runs every runnable goroutine: a supervision task whose
\* Start has returned goes on to its next statement
FairSpecMgr ==
    /\ InitForSupervision
    /\ [][NextSupervision]_vars
    /\ \A g \in Gens : \A ch \in Channels : WF_vars(SupRecord(g, ch))

\* every goroutine the Manager spawned keeps running: each step of a Start
\* call and of its supervision task is taken once it stays possible.  The
\* callers of StartAll and StopAll and of the root ctx's cancel owe nothing
FairSpecAdapters ==
    /\ InitForSupervision
    /\ [][NextSupervision]_vars
    /\ \A g \in Gens :
          /\ WF_vars(TelegramStart(g))
          /\ WF_vars(TelegramStartReturn(g))
          /\ WF_vars(DiscordStart(g))
          /\ WF_vars(DiscordOpen(g))
          /\ WF_vars(DiscordStartReturn(g))
          /\ \A ch \in Channels : WF_vars(SupRecord(g, ch))

(***************************************************************************)
(* Properties of llm.Client (SpecLLM)                                      *)
(***************************************************************************)

\* C1: at most one provider request (doChat attempt) of the Client is in
\* flight at any moment, and while one caller is anywhere between having
\* acquired the mutex and returning from Chat, no other caller has issued a
\* request or is past the mutex.
C1_OneRequestInFlight ==
    /\ Cardinality({c \in Callers : pc[c] = "inflight"}) <= 1
    /\ \A c, d \in Callers :
          (c # d /\ pc[c] \notin {"idle", "lock"}) => pc[d] \in {"idle", "lock"}

\* one request is in flight while the other caller waits for the mutex
C1_SecondCallerWaits ==
    \E c, d \in Callers : c # d /\ pc[c] = "inflight" /\ pc[d] = "lock"

\* C2: any two recorded request start times t1, t2 (t1 recorded first) are at
\* least the cooldown apart: the configured value, or 1 s when the configured
\* value is <= 0.  The distance is between the starts.
C2_StartSpacing ==
    \A i, j \in DOMAIN starts :
        i < j => starts[j] - starts[i] >= (IF cfgCooldown <= 0 THEN 1 ELSE cfgCooldown)

\* with no cooldown configured, two Chat calls have started exactly 1 s apart
C2_TwoStartsOneSecondApart ==
    /\ cfgCooldown <= 0
    /\ Len(starts) = 2
    /\ starts[2] - starts[1] = 1

(***************************************************************************)
(* Properties of bus.Bus (SpecBus)                                         *)
(***************************************************************************)

\* C3: on each stream, a message whose Publish returned without error is
\* either still queued or has been returned by exactly one Consume call, never
\* both and never twice; a message whose Publish returned Canceled (or has not
\* returned) is neither queued nor returned by any Consume call.
C3_ExactlyOnce ==
    \A m \in BusMsgs :
        LET s == ProducerStream(m[1])
            inQueue == Cardinality({i \in DOMAIN Queue(s) : Queue(s)[i] = m})
            returned == Cardinality({i \in DOMAIN consumed[s] : consumed[s][i] = m})
            elsewhere == \E t \in Streams \ {s} :
                            \/ \E i \in DOMAIN Queue(t) : Queue(t)[i] = m
                            \/ \E i \in DOMAIN consumed[t] : consumed[t][i] = m
        IN /\ ~elsewhere
           /\ IF pubResult[m] = "ok"
              THEN inQueue + returned = 1
              ELSE inQueue + returned = 0

\* one message was published and consumed, another's Publish was cancelled
C3_ConsumedAndCanceled ==
    \E m, n \in BusMsgs :
        /\ pubResult[m] = "ok"
        /\ \E i \in DOMAIN consumed[busStream] : consumed[busStream][i] = m
        /\ pubResult[n] = "canceled"

\* C4: on each stream the messages the consumers received, followed by the
\* ones still queued, keep every producer's own publish order: a producer's
\* k-th message comes before its later ones.
C4_ProducerOrder ==
    \A s \in Streams :
        LET seen == consumed[s] \o Queue(s)
        IN \A i, j \in DOMAIN seen :
              (i < j /\ seen[i][1] = seen[j][1]) => seen[i][2] < seen[j][2]

\* two producers' messages were received interleaved
C4_Interleaved ==
    \E i, j, k \in DOMAIN consumed["inbound"] :
        /\ i < j /\ j < k
        /\ consumed["inbound"][i] = <<"telegram", 1>>
        /\ consumed["inbound"][j][1] = "discord"
        /\ consumed["inbound"][k] = <<"telegram", 2>>

\* C5: no queue ever holds more than its capacity; a Publish completes
\* without error only from a queue with space; a Publish that returns Canceled
\* had its context cancelled and leaves both queues unchanged; a Consume
\* completes only by taking the head of a non-empty queue or, its context
\* cancelled, with the queues unchanged.
C5_BoundedBlocking ==
    /\ [](Len(inbound) <= BusCap /\ Len(outbound) <= BusCap)
    /\ [][/\ \A p \in Producers :
                (prod[p].pc = "publishing" /\ prod'[p].pc = "idle") =>
                    LET m == <<p, prod[p].k>>
                        q == Queue(ProducerStream(p))
                    IN \/ /\ pubResult'[m] = "ok"
                          /\ Len(q) < BusCap
                       \/ /\ pubResult'[m] = "canceled"
                          /\ prod[p].cancelled
                          /\ UNCHANGED <<inbound, outbound>>
          /\ \A c \in Consumers :
                (cons[c].pc = "consuming" /\ cons'[c].pc = "idle") =>
                    LET s == ConsumerStream(c)
                    IN \/ /\ Len(Queue(s)) > 0
                          /\ consumed'[s] = Append(consumed[s], Head(Queue(s)))
                       \/ /\ cons[c].cancelled
                          /\ UNCHANGED <<inbound, outbound, consumed>>
       ]_vars

\* a Publish on a full queue returned Canceled and the queue is still full
C5_CanceledOnFullQueue ==
    /\ Len(Queue(busStream)) = BusCap
    /\ \E m \in BusMsgs : pubResult[m] = "canceled"

(***************************************************************************)
(* Properties of channels.Manager (SpecMgr, FairSpecMgr)                   *)
(***************************************************************************)

\* C6: the Send calls for messages addressed to the same registered channel
\* are made in the order the messages were published (ids count publications),
\* and Send is called at most once per message, whatever StartAll and StopAll
\* calls came before.
C6_SendOrderPerChannel ==
    \A i, j \in DOMAIN sendLog :
        (i < j /\ sendLog[i].channel = sendLog[j].channel) =>
            sendLog[i].id < sendLog[j].id

\* C7: a message for a channel that is not registered reaches no adapter's
\* Send, leaves no lastError entry under its name, and the dispatcher that
\* dropped it goes back to consuming.
C7_UnknownChannelDropped ==
    /\ [](/\ \A i \in DOMAIN sendLog : /\ sendLog[i].channel \in Channels
                                       /\ sendLog[i].id \notin mgrLog.dropped
          /\ lastErrorByChannel[UnknownChannel] = "")
    /\ [][\A g \in Gens :
            (/\ disp[g].pc = "got"
             /\ disp[g].msg.channel \notin Channels
             /\ disp'[g] # disp[g]) =>
                /\ disp'[g].pc = "consume"
                /\ UNCHANGED <<sendLog, lastErrorByChannel>>
       ]_vars

\* the only dispatcher dropped message 1 and went on to call Send for message 2
C7_DroppedThenSent ==
    /\ gen = 1
    /\ 1 \in mgrLog.dropped
    /\ \E i \in DOMAIN sendLog : sendLog[i].id = 2

\* C8: when Send returned an error that is not a cancellation, the
\* dispatcher's next step stores the error's text as the lastError of the
\* message's channel, Status reports it, and the dispatcher is consuming again.
C8_SendErrorRecorded ==
    [][\A g \in Gens :
          (/\ disp[g].pc = "sent"
           /\ disp[g].err.kind = "err"
           /\ disp'[g] # disp[g]) =>
              /\ lastErrorByChannel'[disp[g].msg.channel] = disp[g].err.text
              /\ Status'[disp[g].msg.channel].lastError = disp[g].err.text
              /\ disp'[g].pc = "consume"
      ]_vars

\* the only dispatcher recorded the failed Send of message 1 and is in the
\* Send call for message 2
C8_RecordedThenNextSend ==
    /\ gen = 1
    /\ Len(sendLog) = 2
    /\ sendLog[1] = [id |-> 1, channel |-> "telegram"]
    /\ sendLog[2].id = 2
    /\ Status["telegram"].lastError = "telegram send failed"
    /\ disp[1].pc = "sending"

\* C9: StartAll returns nil; once it has returned after spawning, the
\* dispatcher and every channel's supervision task of that call exist; and a
\* Start that returned a non-cancellation error leads to Status reporting that
\* error's text as the channel's lastError.
C9_StartErrorReported ==
    /\ [](ctl.ret.op = "StartAll" => ctl.ret.val = "nil")
    /\ [](ctl.pc \notin {"sa_spawn", "sa_loop"} =>
            \A g \in 1..gen :
                /\ disp[g].pc # "none"
                /\ \A ch \in Channels : sup[g][ch].pc # "none")
    /\ \A g \in Gens :
         (sup[g]["telegram"].pc = "returned" /\ sup[g]["telegram"].err.kind = "err")
             ~> (Status["telegram"].lastError = "telegram token is empty")
    /\ \A g \in Gens :
         (sup[g]["discord"].pc = "returned" /\ sup[g]["discord"].err.kind = "err")
             ~> (Status["discord"].lastError = "discord open failed")

\* telegram's Start failed and is reported while discord's Start runs and
\* StartAll has returned
C9_OneFailedOtherRuns ==
    /\ ctl.ret = Ret("StartAll", TRUE)
    /\ Status["telegram"].lastError = "telegram token is empty"
    /\ sup[1]["telegram"].pc = "done"
    /\ sup[1]["discord"].pc = "run"
    /\ disp[1].pc = "consume"

\* C10: when Start or Send returned an error for which
\* errors.Is(err, context.Canceled) holds, the step that handles the return
\* leaves the channel's lastError as it was.
C10_CancelNotRecorded ==
    [][/\ \A g \in Gens : \A ch \in Channels :
            (/\ sup[g][ch].pc = "returned"
             /\ sup[g][ch].err.kind = "canceled"
             /\ sup'[g][ch] # sup[g][ch]) =>
                lastErrorByChannel'[ch] = lastErrorByChannel[ch]
       /\ \A g \in Gens :
            (/\ disp[g].pc = "sent"
             /\ disp[g].err.kind = "canceled"
             /\ disp'[g] # disp[g]) =>
                lastErrorByChannel'[disp[g].msg.channel] =
                    lastErrorByChannel[disp[g].msg.channel]
      ]_vars

\* telegram's Start was ended by StopAll (the root ctx is live), its
\* supervision task has finished, and telegram has no lastError
C10_StartEndedByStop ==
    /\ gen = 1
    /\ stopOnceDone
    /\ ~rootDone
    /\ sup[1]["telegram"].pc = "done"
    /\ lastErrorByChannel["telegram"] = ""

\* C11: while the Manager is running, a StartAll call returns nil and spawns
\* nothing; so as long as StopAll has not been called, once StartAll has
\* returned there is exactly one dispatcher task and exactly one Start
\* invocation (supervision task) per registered channel.
C11_StartAllIdempotent ==
    /\ []((~stopOnceDone /\ gen >= 1 /\ ctl.pc = "idle") =>
            /\ ctl.ret.op = "StartAll" /\ ctl.ret.val = "nil"
            /\ Cardinality({g \in Gens : disp[g].pc # "none"}) = 1
            /\ \A ch \in Channels :
                  Cardinality({g \in Gens : sup[g][ch].pc # "none"}) = 1)
    /\ [][(ctl.pc = "idle" /\ running /\ ctl'.pc # "so_loop") =>
            /\ ctl'.pc = "idle"
            /\ gen' = gen
            /\ {g \in Gens : disp'[g].pc # "none"} = {g \in Gens : disp[g].pc # "none"}
            /\ \A ch \in Channels :
                  {g \in Gens : sup'[g][ch].pc # "none"} =
                  {g \in Gens : sup[g][ch].pc # "none"}
       ]_vars

\* a second StartAll found the Manager running and returned without spawning
C11_RepeatedStartAll ==
    /\ running
    /\ ~stopOnceDone
    /\ gen = 1
    /\ ctl.pc = "idle"
    /\ ctl.ret = Ret("StartAll", FALSE)

\* C12: whenever the last call to have returned is a StopAll, also one made
\* after a later StartAll, the Manager is marked not-running.
C12_StopAllMarksNotRunning ==
    (ctl.pc = "idle" /\ ctl.ret.op = "StopAll") => ~running

\* C13: a Start call during which Stop was called eventually returns, whether
\* or not the ctx handed to Start is ever cancelled.
C13_StopEndsStart ==
    \A g \in Gens : \A ch \in Channels :
        (sup[g][ch].pc \in {"open", "run"} /\ sup[g][ch].runDone)
            ~> (sup[g][ch].pc \in {"returned", "done"})

\* C14: a Chat call makes at most max_retries + 1 provider attempts, for
\* every configured max_retries value.
C14_AttemptBudget ==
    \A c \in Callers : loc[c].attempts <= cfgMaxRetries + 1

C16_WaitDuration ==
    [][\A c \in Callers :
          (pc[c] = "inflight" /\ pc'[c] = "wait") =>
              loc'[c].wakeAt - clock =
                  CASE loc'[c].err = <<"429", "reset", "after", "2s">> -> 3
                    [] loc'[c].err = <<"RESOURCE_EXHAUSTED", "reset", "after", "7s">> -> 8
                    [] OTHER -> CASE loc[c].try = 0 -> 2
                                  [] loc[c].try = 1 -> 4
                                  [] loc[c].try = 2 -> 8
      ]_vars

\* after attempts 0 and 1 were retried, attempt 2 failed with a plain 429 and
\* the call waits 8 s
C16_EightSeconds ==
    \E c \in Callers :
        /\ pc[c] = "wait"
        /\ loc[c].try = 2
        /\ loc[c].err = <<"status", "429">>
        /\ loc[c].wakeAt - clock = 8

\* C17: a Chat call whose ctx is cancelled while it waits between two
\* attempts, the delay not yet over, can return at once, and when it leaves the
\* wait it returns the ctx error without another attempt; a returning call
\* releases the mutex it holds.
C17_CancelDuringWait ==
    /\ [](\A c \in Callers :
            (pc[c] = "wait" /\ ctxCancelled[c]) => ENABLED RetryCancelled(c))
    /\ [][\A c \in Callers :
            /\ (/\ pc[c] = "wait"
                /\ ctxCancelled[c]
                /\ ~loc[c].timerFirst
                /\ pc'[c] # "wait") =>
                   /\ pc'[c] = "ret"
                   /\ loc'[c].err = <<"context", "canceled">>
                   /\ loc'[c].attempts = loc[c].attempts
            /\ (pc[c] = "ret" /\ pc'[c] # "ret") =>
                   /\ mu = c
                   /\ mu' = 0
       ]_vars

\* a call is cancelled during its wait with delay remaining, holding the
\* mutex the other caller is blocked on
C17_CancelledWaiter ==
    \E c, d \in Callers :
        /\ pc[c] = "wait"
        /\ ctxCancelled[c]
        /\ clock < loc[c].wakeAt
        /\ mu = c
        /\ pc[d] = "lock"

\* C18: when the configured system prompt has a character that is not white
\* space, every provider attempt of a Chat call, first or retried, receives
\* one system message carrying the prompt at position 0 followed by the
\* caller's messages in their order; when the prompt is blank the attempt
\* receives the caller's messages as they are; the caller's slice never
\* changes.
C18_SystemPromptPrepended ==
    /\ [](\A c \in Callers :
            pc[c] = "inflight" =>
                LET blank == \A i \in 1..Len(cfgSystemPrompt) :
                                 cfgSystemPrompt[i] = " "
                    sent == loc[c].sent
                IN IF blank
                   THEN sent = callerMsgs[c]
                   ELSE /\ Len(sent) = Len(callerMsgs[c]) + 1
                        /\ sent[1] = [role |-> "system",
                                      content |-> cfgSystemPrompt]
                        /\ \A i \in 1..Len(callerMsgs[c]) :
                               sent[i + 1] = callerMsgs[c][i])
    /\ [][callerMsgs' = callerMsgs]_vars

\* the retried, second attempt of a call whose caller passed a system message
\* of its own, under a prompt with white space around it
C18_RetriedWithPrompt ==
    \E c \in Callers :
        /\ pc[c] = "inflight"
        /\ loc[c].attempts = 2
        /\ cfgSystemPrompt = <<" ", "b", " ">>
        /\ Len(callerMsgs[c]) = 2
        /\ callerMsgs[c][1].role = "system"
        /\ Len(loc[c].sent) = 3

\* C19: the requests of Chat, ListModels and ProbeModel on one Client are
\* mutually serialized: while a ListModels or ProbeModel request is in flight
\* no Chat request and no other ListModels or ProbeModel request of that
\* Client is in flight.
C19_MutuallySerialized ==
    \A op \in ModelOps :
        modelOps[op] = "inflight" =>
            /\ \A c \in Callers : pc[c] # "inflight"
            /\ \A other \in ModelOps \ {op} : modelOps[other] # "inflight"

\* C20: a Send call of any adapter on a message whose content is empty or
\* all white space returns nil and makes no provider call, whatever the
\* chat id and whether or not the adapter is connected.
C20_EmptyContentIsNoOp ==
    (/\ sendCall.pc = "returned"
     /\ \A i \in 1..Len(sendCall.content) : sendCall.content[i] = " ")
        => (sendCall.ret = "nil" /\ ~sendCall.called)

\* C21: one Send makes at most 3 provider attempts for its message, and a
\* failed third attempt ends the Send with that error: no wait and no further
\* attempt follows it.
C21_AtMostThreeAttempts ==
    /\ [](sendPath.calls <= 3)
    /\ [][(/\ sendPath.pc = "attempt"
           /\ sendPath.calls = 2
           /\ sendPath'.calls = 3
           /\ sendPath'.err.kind # "nil")
              => (sendPath'.pc = "returned" /\ sendPath'.ret = sendPath'.err)
       ]_vars

\* C22: a failed attempt is followed by another attempt exactly when it was
\* attempt 1 or 2 and its error is a rate limit (429), a 5xx or a transient
\* network error; after any other failure the Send returns that error, with
\* no further attempt.
C22_RetryIffRetryable ==
    [][LET e == sendPath'.err
           k == sendPath.attempt
           retryable ==
               \/ e.kind = "ratelimit"
               \/ e.kind = "http" /\ (e.status = 429 \/ (e.status >= 500 /\ e.status <= 599))
               \/ e.kind = "net" /\ e.transient
       IN /\ (/\ sendPath.pc = "attempt"
              /\ sendPath'.calls = sendPath.calls + 1
              /\ e.kind # "nil")
                 => IF retryable /\ k \in {1, 2}
                    THEN sendPath'.pc = "wait"
                    ELSE sendPath'.pc = "returned" /\ sendPath'.ret = e
          /\ (sendPath.pc = "wait" /\ sendPath'.pc # "wait")
                 => sendPath'.pc = "attempt"
      ]_vars

\* C22, as the code has it: a failed attempt is followed by the wait for the
\* next attempt of the same request exactly when it was attempt 1 or 2 and
\* its error is a rate limit (429), a 5xx or a transient network error.  The
\* wait ends in attempt k+1 while ctx is live and in the return of the ctx
\* error, with no attempt, once ctx is done.  Any other failure ends the
\* retry loop after that attempt: Send returns it, except that telegram's
\* Send answers a parse-entities error of its HTML send with attempt 1 of the
\* plain-text send.
C22_RetryDecision ==
    [][LET e == sendPath'.err
           k == sendPath.attempt
           retryable ==
               \/ e.kind = "ratelimit"
               \/ e.kind = "http" /\ (e.status = 429 \/ (e.status >= 500 /\ e.status <= 599))
               \/ e.kind = "net" /\ e.transient
       IN /\ (/\ sendPath.pc = "attempt"
              /\ sendPath'.calls = sendPath.calls + 1
              /\ e.kind # "nil")
                 => IF retryable /\ k \in {1, 2}
                    THEN sendPath'.pc = "wait" /\ sendPath'.attempt = k
                    ELSE IF /\ sendPath.adapter = "telegram"
                            /\ sendPath.params.parseMode = "HTML"
                            /\ e.kind = "parse"
                         THEN /\ sendPath'.pc = "attempt"
                              /\ sendPath'.attempt = 1
                              /\ sendPath'.params.parseMode = ""
                         ELSE sendPath'.pc = "returned" /\ sendPath'.ret = e
          /\ (sendPath.pc = "wait" /\ sendPath'.pc # "wait")
                 => IF sendPath.ctxDone
                    THEN /\ sendPath'.pc = "returned"
                         /\ sendPath'.ret.kind = "canceled"
                         /\ sendPath'.calls = sendPath.calls
                    ELSE /\ sendPath'.pc = "attempt"
                         /\ sendPath'.attempt = k + 1
      ]_vars

\* telegram's attempt 1 failed and was retried; attempt 2 failed with a 400
\* that is no parse error, which Send returned
C22_RetriedThenReturned ==
    /\ sendPath.pc = "returned"
    /\ sendPath.adapter = "telegram"
    /\ sendPath.attempt = 2
    /\ sendPath.calls = 2
    /\ sendPath.ret.kind = "http"
    /\ sendPath.ret.status = 400

\* C23: the wait between send attempt k and attempt k+1 is the provider's
\* retry_after when the failure is a rate-limit error that carries a positive
\* one (2000 ms for Retry-After: 2), and else 300 ms x 2^min(k-1, 4): 300 ms
\* after attempt 1, 600 ms after attempt 2.
C23_SendWait ==
    [][(sendPath.pc = "attempt" /\ sendPath'.pc = "wait") =>
         LET e == sendPath'.err
             k == sendPath.attempt
             rateLimited == e.kind = "ratelimit" \/ (e.kind = "http" /\ e.status = 429)
         IN sendPath'.wait =
              IF rateLimited /\ e.retryAfter > 0 THEN e.retryAfter
              ELSE CASE k = 1 -> 300
                     [] k = 2 -> 600
      ]_vars

\* whatsapp's attempt 1 was retried, attempt 2 came back 429 with
\* Retry-After: 2, and the Send waits 2 s
C23_TwoSecondsAfterHeader ==
    /\ sendPath.pc = "wait"
    /\ sendPath.adapter = "whatsapp"
    /\ sendPath.attempt = 2
    /\ sendPath.err.status = 429
    /\ sendPath.wait = 2000

C25_DeliveryReplyWins ==
    LET blank(s) == \A i \in 1..Len(s) : s[i] = " "
        d == sendPath.deliveryReplyToID
        r == sendPath.replyTo
    IN (sendPath.pc # "idle" /\ ~blank(d)) =>
          IF sendPath.adapter = "telegram"
          THEN sendPath.replyID = CASE d = <<"7">> -> 7
                                    [] d = <<"5", " ">> -> 5
                                    [] OTHER -> 0
          ELSE sendPath.replyStr = TrimSpace(d)

(***************************************************************************)
(* C26.  Every adapter's inbound handler that meets a full Bus gives up    *)
(* its publish after at most 2 s and returns, dropping the event, even if  *)
(* the Bus is never drained: a handler is never found blocked in           *)
(* PublishInbound for more than 2 s.                                       *)
(***************************************************************************)
C26_PublishGivesUpAfterTwoSeconds ==
    handler.pc = "publishing" => handler.waited <= PublishDeadline

\* the handled event has a sender the AllowList does not admit, or a bot as
\* its author
EventRejected ==
    /\ handler.evt.adapter # "none"
    /\ \/ ~handler.evt.allowed
       \/ /\ handler.evt.adapter \in {"telegram", "discord"}
          /\ handler.evt.author = "bot"

(***************************************************************************)
(* C27.  For every adapter, an event whose sender id the AllowList does    *)
(* not admit, and likewise an event authored by a bot, causes no           *)
(* PublishInbound call: its handler returns without a message to publish   *)
(* and without reaching PublishInbound, and the Inbound queue does not     *)
(* grow while that event is the handled one.                               *)
(***************************************************************************)
C27_RejectedEventNotPublished ==
    /\ [](EventRejected =>
            /\ handler.pc = "done"
            /\ handler.msg = NoInbound
            /\ ~handler.published)
    /\ [][EventRejected' => Len(inbound') <= Len(inbound)]_vars

\* discord has returned from the event of a bot the AllowList admits, with a
\* channel and a text that are not blank, while the queue had room
C27_BotEventDropped ==
    /\ handler.pc = "done"
    /\ handler.evt.adapter = "discord"
    /\ handler.evt.author = "bot"
    /\ handler.evt.allowed
    /\ TrimSpace(handler.evt.text) # << >>
    /\ TrimSpace(handler.evt.chatID) # << >>
    /\ BusHasSpace(inbound)
    /\ ~handler.published

\* the name of the channel the adapter of the handled event publishes under
OwnChannel == handler.evt.adapter

(***************************************************************************)
(* C28.  Every InboundMessage an adapter publishes has a non-empty content *)
(* or at least one attachment, names the adapter's own channel, and has    *)
(* session_key = channel + ':' + chat_id.  Stated of the message a handler *)
(* hands to PublishInbound.                                                *)
(***************************************************************************)
C28_PublishedMessageWellFormed ==
    handler.pc = "publishing" \/ handler.published =>
        /\ handler.msg.content # << >> \/ handler.msg.attachments >= 1
        /\ handler.msg.channel = OwnChannel
        /\ handler.msg.channel \in SendAdapters
        /\ handler.msg.sessionKey
             = <<handler.msg.channel \o ":">> \o handler.msg.chatID

\* telegram has published a message that has an attachment and no text
C28_AttachmentOnlyPublished ==
    /\ handler.published
    /\ handler.evt.adapter = "telegram"
    /\ handler.msg.content = << >>
    /\ handler.msg.attachments = 1
    /\ BusHasMessage(inbound)

\* the handled event is a webhook POST that handleInbound has worked on
WebhookPost == handler.evt.adapter = "whatsapp"

PostPassesSignature ==
    verifyWhatsAppSignature(handler.evt.appSecret, handler.evt.signature)

(***************************************************************************)
(* C29.  On a WhatsApp webhook POST, a request that fails the signature    *)
(* check is answered 401 and a request that passes it but whose body is    *)
(* not valid JSON is answered 400, and neither publishes anything; with no *)
(* app secret configured every POST passes the signature check.            *)
(***************************************************************************)
C29_WebhookRejections ==
    WebhookPost =>
        /\ ~PostPassesSignature =>
              /\ handler.status = 401
              /\ handler.pc = "done" /\ ~handler.published
        /\ PostPassesSignature /\ ~handler.evt.jsonOK =>
              /\ handler.status = 400
              /\ handler.pc = "done" /\ ~handler.published
        /\ handler.evt.appSecret = << >> => handler.status # 401

\* with no app secret, a POST with a wrong digest and a body that is not JSON
\* has been answered 400 while the queue had room
C29_BadJSONWithoutSecret ==
    /\ WebhookPost
    /\ handler.evt.appSecret = << >>
    /\ handler.evt.signature.mac = "bad"
    /\ ~handler.evt.jsonOK
    /\ handler.evt.allowed
    /\ TrimSpace(handler.evt.text) # << >>
    /\ handler.status = 400
    /\ BusHasSpace(inbound)

\* the step in which generation g's Start call of adapter ch returns a start
\* failure
StartFails(g, ch) ==
    /\ sup[g][ch].pc \in {"start", "open"}
    /\ sup'[g][ch].pc = "returned"
    /\ sup'[g][ch].err.kind = "err"

(***************************************************************************)
(* C30.  An adapter whose start fails remains not-running: IsRunning is    *)
(* false in the state a Start call is in right before it returns a start   *)
(* failure, and in the state after that return.                            *)
(***************************************************************************)
C30_FailedStartNeverRunning ==
    [][\A g \in Gens : \A ch \in Channels :
          StartFails(g, ch) =>
              /\ ~Status[ch].running
              /\ ~Status'[ch].running]_vars

(***************************************************************************)
(* C31.  After the root context is cancelled the outbound dispatcher calls *)
(* no Send for a message published afterwards: no message handed to Send   *)
(* was published after the cancellation.                                   *)
(***************************************************************************)
C31_NoSendAfterCancel ==
    \A i \in 1..Len(sendLog) : sendLog[i].id \notin mgrLog.late

\* StartAll has got past the iteration of its loop that is for channel ch
StartedChannel(ch) ==
    /\ gen > 0
    /\ ctl.pc # "sa_spawn"
    /\ ctl.pc = "sa_loop" => ch \notin ctl.todo

(***************************************************************************)
(* C32.  A channel's lastError is cleared on its next start attempt: once  *)
(* a StartAll that starts the channels has reached a channel, Status shows *)
(* a lastError for that channel only if an error was recorded for it after *)
(* that StartAll began.                                                    *)
(***************************************************************************)
C32_LastErrorClearedOnStart ==
    \A ch \in Channels :
        StartedChannel(ch) /\ Status[ch].lastError # "" => ch \in mgrLog.fresh

\* the second StartAll has cleared and started one channel and is about to
\* reach the other, which still shows the error of the first run
C32_OldErrorAboutToBeCleared ==
    /\ gen = 2
    /\ ctl.pc = "sa_loop"
    /\ \E ch \in Channels :
          /\ ch \in ctl.todo
          /\ Status[ch].lastError # ""
          /\ ch \notin mgrLog.fresh
    /\ \E ch \in Channels : StartedChannel(ch)

\* the step in which StartAll's clearing of channel ch removes a lastError
ClearErases(ch) ==
    /\ ctl.pc = "sa_loop"
    /\ ch \in ctl.todo
    /\ ch \notin ctl'.todo
    /\ lastErrorByChannel[ch] # ""
    /\ lastErrorByChannel'[ch] = ""

(***************************************************************************)
(* C38.  A lastError that the dispatcher or a supervision task records     *)
(* stays visible in Status until a later StartAll restarts the channels:   *)
(* a lastError is removed only by the clearing step of a StartAll, and     *)
(* that step never erases an error recorded since that very StartAll       *)
(* began, such as one its own dispatcher has already recorded.             *)
(***************************************************************************)
C38_RecordedErrorStaysVisible ==
    [][\A ch \in Channels :
          /\ lastErrorByChannel[ch] # "" /\ lastErrorByChannel'[ch] = ""
                => ClearErases(ch)
          /\ ClearErases(ch) => ch \notin mgrLog.fresh]_vars

(***************************************************************************)
(* C33.  If an attempt of a Send fails with a retryable error and a later  *)
(* attempt of the same Send succeeds, Send returns nil and the Manager     *)
(* records no lastError for the channel: nothing is recorded while Send is *)
(* under way, and what the dispatcher records afterwards is the error Send *)
(* returned, never the error of an attempt that was retried.               *)
(***************************************************************************)
C33_OnlyReturnedErrorRecorded ==
    /\ sendPath.pc # "recorded" => sendPath.recorded = NoSendErr
    /\ sendPath.pc \in {"returned", "recorded"}
         /\ sendPath.calls >= 1 /\ sendPath.err.kind = "nil"
           => sendPath.ret = NoSendErr
    /\ sendPath.pc = "recorded" =>
          /\ sendPath.recorded \in {NoSendErr, sendPath.ret}
          /\ sendPath.ret = NoSendErr => sendPath.recorded = NoSendErr

\* the dispatcher is past its record step for a whatsapp Send whose second
\* attempt succeeded
C33_RetriedSendSucceeded ==
    /\ sendPath.pc = "recorded"
    /\ sendPath.adapter = "whatsapp"
    /\ sendPath.attempt = 2
    /\ sendPath.calls = 2
    /\ sendPath.err.kind = "nil"
    /\ sendPath.ret = NoSendErr
    /\ sendPath.recorded = NoSendErr

\* the lower-cased error text of the probe has word w in it
ProbeErrHas(w) == \E i \in DOMAIN probeErr : ToLowerWord(probeErr[i]) = w

ProbeErrNotFound ==
    \/ ProbeErrHas("404")
    \/ \E i \in 1..(Len(probeErr) - 1) :
          ToLowerWord(probeErr[i]) = "not" /\ ToLowerWord(probeErr[i + 1]) = "found"

(***************************************************************************)
(* C34.  ProbeModel makes a single provider attempt and classifies it:     *)
(* success gives status ok; an error whose text contains 404 or 'not       *)
(* found' gives not_found; otherwise an error whose text contains 429,     *)
(* 'quota' or 'exhausted' gives ok; any other error gives error.           *)
(***************************************************************************)
C34_ProbeClassification ==
    /\ probe.calls <= 1
    /\ modelOps["ProbeModel"] = "returned" =>
          /\ probe.calls = 1
          /\ probe.status =
               CASE probeErr = ErrNone -> "ok"
                 [] probeErr # ErrNone /\ ProbeErrNotFound -> "not_found"
                 [] probeErr # ErrNone /\ ~ProbeErrNotFound
                      /\ (ProbeErrHas("429") \/ ProbeErrHas("quota")
                            \/ ProbeErrHas("exhausted")) -> "ok"
                 [] OTHER -> "error"

\* a probe whose error text has both 404 and quota in it has returned
C34_NotFoundBeforeQuota ==
    /\ modelOps["ProbeModel"] = "returned"
    /\ ProbeErrHas("404") /\ ProbeErrHas("quota")
    /\ probe.status = "not_found"

\* the target directories Install can make
TargetDirs == { Join(SkillsDir, slug) : slug \in { s \in SlugValues : validateSkillIdentifier(s) } }

(***************************************************************************)
(* C35.  Skill Install never leaves a partial installation: whenever       *)
(* Install fails after it has created the skill's target directory, the    *)
(* target directory does not exist when Install returns, and nothing was   *)
(* written outside it: at no time is a file of an archive anywhere but     *)
(* under a target directory, and the downloaded archive is gone from the   *)
(* temp directory at the return.                                           *)
(***************************************************************************)
C35_NoPartialInstall ==
    /\ \A f \in install.files : \E dir \in TargetDirs : IsUnder(f, dir)
    /\ install.pc = "returned" /\ install.created /\ install.ret # "ok" =>
          /\ ~install.dir
          /\ \A f \in install.files : ~IsUnder(f, install.target)
          /\ ~install.tmp

\* Install has returned "unsafe path" for an archive whose first entry,
\* SKILL.md, it had extracted before it met ../evil.txt
C35_TraversalAfterGoodEntry ==
    /\ install.pc = "returned"
    /\ install.ret = "unsafe path"
    /\ install.created
    /\ install.i = 2
    /\ install.req.archive = << <<"SKILL.md">>, <<"..", "evil.txt">> >>

(***************************************************************************)
(* C36.  Every blocking point of Chat takes the caller's cancellation      *)
(* scope: a Chat call whose context is cancelled while it sleeps out the   *)
(* cooldown, or while it waits for the client's mutex, leaves that         *)
(* blocking point only by returning, so that it stamps no request start    *)
(* and issues no provider request.                                         *)
(***************************************************************************)
C36_CancelEndsCooldownAndLockWait ==
    [][\A c \in Callers :
          (ctxCancelled[c] /\ pc[c] \in {"lock", "sleep"}) =>
              pc'[c] \in {pc[c], "ret"}]_vars

(***************************************************************************)
(* C37.  Over any sequence of StartAll and StopAll calls made under one    *)
(* context that is still live, at most one outbound-dispatcher task        *)
(* consumes from the Bus at any time and at most one Start invocation per  *)
(* registered channel is executing.                                        *)
(***************************************************************************)
C37_OneDispatcherOneStart ==
    ~rootDone =>
        /\ Cardinality({ g \in Gens : disp[g].pc \notin {"none", "done"} }) <= 1
        /\ \A ch \in Channels :
              Cardinality({ g \in Gens : sup[g][ch].pc \in {"open", "run"} }) <= 1

\* the Chat calls that have not yet written the request start
BeforeStamp == { c \in Callers : pc[c] \in {"lock", "cool", "sleep", "stamp"} }

(***************************************************************************)
(* C39.  last_request_at is written exactly once per Chat call, after the  *)
(* cooldown wait and before the first attempt, and only while the mutex    *)
(* is held: every write is the step of a caller that holds the mutex, has  *)
(* its cooldown behind it and has made no attempt, each call that is past  *)
(* that step has written once, and every other step (retry attempts,       *)
(* retry waits, ProbeModel and ListModels among them) leaves               *)
(* last_request_at unchanged.                                              *)
(***************************************************************************)
C39_LastRequestAtWrittenOnce ==
    /\ [](Len(starts) = nChats - Cardinality(BeforeStamp))
    /\ [][(starts' # starts \/ lastReqAt' # lastReqAt) =>
            /\ modelOps' = modelOps
            /\ \E c \in Callers :
                  /\ pc[c] = "stamp" /\ pc'[c] = "attempt"
                  /\ mu = c /\ mu' = c
                  /\ clock >= loc[c].wakeAt
                  /\ loc[c].attempts = 0 /\ loc'[c].attempts = 0
                  /\ starts' = Append(starts, clock)
                  /\ lastReqAt' = clock]_vars

\* a Chat call is in its retry attempt and ProbeModel has returned, after the
\* clock moved on: the one request start written is the call's first
C39_RetryAndProbeAfterStamp ==
    /\ \E c \in Callers : pc[c] = "inflight" /\ loc[c].attempts = 2
    /\ modelOps["ProbeModel"] = "returned"
    /\ modelOps["ListModels"] = "returned"
    /\ Len(starts) = 1
    /\ lastReqAt = starts[1]
    /\ clock > lastReqAt

(***************************************************************************)
(* C40.  Chat returns a result with a nil error if and only if one of its  *)
(* attempts succeeded; it then returns that attempt's result, no attempt   *)
(* is made after a successful one, and on every exit path (success, fatal  *)
(* error, exhausted retries, cancellation) the client's mutex is released  *)
(* so that a waiting Chat call can proceed: a succeeded attempt ends the   *)
(* call at once with a nil error and its own result, a call that returns   *)
(* a nil error returns the result of its last attempt, a returning call    *)
(* makes no attempt, the return unlocks, and the mutex is free whenever    *)
(* no call is between Lock() and its return.                               *)
(***************************************************************************)
C40_NilErrorIffAttemptSucceeded ==
    /\ [](\A c \in Callers :
            pc[c] = "ret" =>
               /\ loc[c].err = ErrNone =>
                     (loc[c].attempts >= 1 /\ loc[c].res = loc[c].attempts)
               /\ loc[c].res = 0 => loc[c].err = ErrCanceled)
    /\ []((\A c \in Callers : pc[c] \in {"idle", "lock"}) => mu = 0)
    /\ [][\A c \in Callers :
            /\ (pc[c] = "inflight" /\ pc'[c] # "inflight" /\ loc'[c].err = ErrNone) =>
                  (pc'[c] = "ret" /\ loc'[c].res = loc[c].attempts)
            /\ (pc[c] = "inflight" /\ pc'[c] = "wait") => loc'[c].err # ErrNone
            /\ (pc[c] = "ret" /\ pc'[c] # "ret") =>
                  (pc'[c] = "idle" /\ mu = c /\ mu' = 0)]_vars

\* a Chat call returns the result of its second attempt, which succeeded
\* after a retry wait, while the other caller waits for the mutex
C40_SucceededOnRetryOtherWaits ==
    \E c, d \in Callers :
        /\ pc[c] = "ret" /\ loc[c].err = ErrNone
        /\ loc[c].attempts = 2 /\ loc[c].res = 2
        /\ pc[d] = "lock"

=============================================================================
